---- MODULE Spec2Model ----
(***************************************************************************)
(* Packet-level network simulator of onlynetwork: the Simulator driver     *)
(* (src/src/devices/HostDevice.ts, class Simulator), the device classes    *)
(* (HostDevice, SwitchDevice, RouterDevice, FirewallDevice, CloudDevice),  *)
(* the event queue, the utilities and the GraphAnalyzer pre-check.         *)
(*                                                                         *)
(* Value encodings                                                         *)
(*   MAC address   [octets |-> <<o1..o6>>, lower |-> BOOLEAN]; lower says  *)
(*                 the hex letters of the string are lower case, so that   *)
(*                 toUpperCase() is a real conversion.  '' is NoMac.       *)
(*   IPv4 address  <<a,b,c,d>>; absent or '' is NoIp.                      *)
(*   CIDR string   [addr |-> ip, prefix |-> 0..32]; a string without '/'   *)
(*                 has prefix NaN.                                         *)
(*   VLAN          1..4094; absent is NoVlan (0 is falsy in the source as  *)
(*                 undefined is).                                          *)
(*   id strings    node and interface ids are strings without '-'.         *)
(*   reason        the constant part of the source's template string.      *)
(***************************************************************************)
EXTENDS Integers, Sequences, FiniteSets, TLC

(* ---------------------------------------------------------------------- *)
(* Bounds of the model                                                     *)
(* ---------------------------------------------------------------------- *)
MaxHopsBound == 3
MaxCalls == 2
MaxUnitCalls == 2
MaxRoutes == 3
MaxRules == 3
MaxEdges == 2
MaxRequests == 4

(* ---------------------------------------------------------------------- *)
(* Program constants                                                       *)
(* ---------------------------------------------------------------------- *)
DefaultMaxHops == 100
InitialTtl == 64
ChainLength == InitialTtl

(* ---------------------------------------------------------------------- *)
(* Absent values                                                           *)
(* ---------------------------------------------------------------------- *)
NaN == 0 - 1
NoPort == 0 - 1
NoVlan == 0
NoIp == <<>>
NoMac == [octets |-> <<>>, lower |-> FALSE]
NoAllowedVlans == {0 - 1}
NoCidr == [addr |-> NoIp, prefix |-> NaN]
Undefined == "undefined"

Pow2(n) == 2 ^ n

(* ---------------------------------------------------------------------- *)
(* Utilities (src/src/simulator/utils.ts)                                  *)
(* ---------------------------------------------------------------------- *)
ToUpperCase(mac) == [mac EXCEPT !.lower = FALSE]

BroadcastMac == [octets |-> <<255, 255, 255, 255, 255, 255>>, lower |-> FALSE]

\* 01:00:5E:00:00:01, the low bit of the first octet set
MulticastMac == [octets |-> <<1, 0, 94, 0, 0, 1>>, lower |-> FALSE]

macTableKey(mac, vlan) == <<ToUpperCase(mac), vlan>>

isBroadcastMac(mac) == ToUpperCase(mac) = BroadcastMac

\* parseInt('', 16) is NaN and NaN & 1 is 0
isMulticastMac(mac) ==
    IF Len(mac.octets) = 0 THEN FALSE ELSE (mac.octets[1] % 2) = 1

MinInt32 == (0 - 2147483647) - 1

\* (parts[0] << 24) | (parts[1] << 16) | (parts[2] << 8) | parts[3], a signed
\* 32-bit integer: a first octet of 128 or more sets the sign bit
ipToNumber(ip) ==
    (IF ip[1] >= 128 THEN ip[1] - 256 ELSE ip[1]) * Pow2(24)
        + ip[2] * Pow2(16) + ip[3] * Pow2(8) + ip[4]

\* (~0 << (32 - prefix)) >>> 0, kept as the signed reading of its 32 bits (the
\* only use of the mask is as an operand of &, which reads it that way).
\* NaN === 0 is false and ~0 << NaN is ~0, so a prefix that does not parse
\* yields the all-ones mask
prefixToMask(prefix) ==
    IF prefix = 0 THEN 0
    ELSE IF prefix = NaN THEN 0 - 1
    ELSE IF prefix = 1 THEN MinInt32
    ELSE 0 - Pow2(32 - prefix)

\* n & mask on 32-bit integers, for a mask made of leading one bits
BitAnd(n, mask) ==
    IF mask = 0 THEN 0
    ELSE IF mask = MinInt32 THEN (IF n < 0 THEN MinInt32 ELSE 0)
    ELSE n - (n % (0 - mask))

ipInSubnet(ip, cidr) ==
    LET mask == prefixToMask(cidr.prefix)
    IN  BitAnd(ipToNumber(ip), mask) = BitAnd(ipToNumber(cidr.addr), mask)

getConnectedInterface(links, nodeId, interfaceId) ==
    LET hit(l) == \/ (l.source.nodeId = nodeId /\ l.source.interfaceId = interfaceId)
                  \/ (l.target.nodeId = nodeId /\ l.target.interfaceId = interfaceId)
        idx == {i \in 1..Len(links) : hit(links[i])}
    IN  IF idx = {} THEN <<>>
        ELSE LET i == CHOOSE j \in idx : \A k \in idx : j <= k
                 l == links[i]
             IN  IF l.source.nodeId = nodeId /\ l.source.interfaceId = interfaceId
                 THEN <<l.target>> ELSE <<l.source>>

getNodeById(nodes, nodeId) ==
    LET idx == {i \in 1..Len(nodes) : nodes[i].id = nodeId}
    IN  IF idx = {} THEN <<>>
        ELSE <<nodes[CHOOSE j \in idx : \A k \in idx : j <= k]>>

RECURSIVE findBestRouteFrom(_, _, _, _, _)
findBestRouteFrom(staticRoutes, dstIp, i, bestRoute, bestPrefix) ==
    IF i > Len(staticRoutes) THEN bestRoute
    ELSE LET route == staticRoutes[i]
             prefix == route.prefix.prefix
         IN  IF ipInSubnet(dstIp, route.prefix) /\ prefix # NaN /\ prefix > bestPrefix
             THEN findBestRouteFrom(staticRoutes, dstIp, i + 1, <<route>>, prefix)
             ELSE findBestRouteFrom(staticRoutes, dstIp, i + 1, bestRoute, bestPrefix)

\* findBestRoute that takes the first route that contains the destination
findBestRouteFirstMatch(staticRoutes, dstIp) ==
    LET idx == {i \in 1..Len(staticRoutes) :
                   /\ ipInSubnet(dstIp, staticRoutes[i].prefix)
                   /\ staticRoutes[i].prefix.prefix # NaN}
    IN  IF idx = {} THEN <<>>
        ELSE <<staticRoutes[CHOOSE i \in idx : \A j \in idx : i <= j]>>

findBestRoute(staticRoutes, dstIp) ==
    findBestRouteFrom(staticRoutes, dstIp, 1, <<>>, 0 - 1)

(* ---------------------------------------------------------------------- *)
(* Device base class (src/src/devices/Device.ts)                           *)
(* ---------------------------------------------------------------------- *)
Or(a, b) == IF a = 0 THEN b ELSE a

getInterface(node, interfaceId) ==
    LET idx == {i \in 1..Len(node.interfaces) : node.interfaces[i].id = interfaceId}
    IN  IF idx = {} THEN <<>>
        ELSE <<node.interfaces[CHOOSE j \in idx : \A k \in idx : j <= k]>>

findConnectedInterface(node, links, interfaceId) ==
    getConnectedInterface(links, node.id, interfaceId)

\* isPacketForThisDevice that compares the MAC addresses as they are written
isPacketForThisDeviceCaseSensitive(node, packet, interfaceId) ==
    LET found == getInterface(node, interfaceId)
    IN  IF found = <<>> THEN FALSE
        ELSE LET iface == found[1]
                 dstMacMatch == packet.dstMac = iface.mac
                 broadcastMatch == packet.dstMac = BroadcastMac
                 ipMatch == IF packet.dstIp # NoIp THEN iface.ip.addr = packet.dstIp ELSE FALSE
             IN  dstMacMatch \/ broadcastMatch \/ ipMatch

isPacketForThisDevice(node, packet, interfaceId) ==
    LET found == getInterface(node, interfaceId)
    IN  IF found = <<>> THEN FALSE
        ELSE LET iface == found[1]
                 dstMacMatch == ToUpperCase(packet.dstMac) = ToUpperCase(iface.mac)
                 broadcastMatch == ToUpperCase(packet.dstMac) = BroadcastMac
                 ipMatch == IF packet.dstIp # NoIp THEN iface.ip.addr = packet.dstIp ELSE FALSE
             IN  dstMacMatch \/ broadcastMatch \/ ipMatch

\* createTraceHop that stamps every hop with time 0
createTraceHopUnstamped(node, time, interfaceId, action, reason, packet) ==
    [time |-> 0, nodeId |-> node.id, interfaceId |-> interfaceId, action |-> action,
     reason |-> reason, packet |-> packet]

createTraceHop(node, time, interfaceId, action, reason, packet) ==
    [time |-> time, nodeId |-> node.id, interfaceId |-> interfaceId,
     action |-> action, reason |-> reason, packet |-> packet]

\* createForwardEvent that gives the forwarded copy an id of its own
createForwardEventNewId(packet, targetNodeId, targetInterfaceId) ==
    [packet |-> [packet EXCEPT !.id = packet.id + 1], nodeId |-> targetNodeId,
     interfaceId |-> targetInterfaceId]

createForwardEvent(packet, targetNodeId, targetInterfaceId) ==
    [packet |-> packet, nodeId |-> targetNodeId, interfaceId |-> targetInterfaceId]

\* a device that hands back its hops latest first
ProcessResultLatestFirst(events, trace, delivered, macTable, minted) ==
    [events |-> events, trace |-> [i \in 1..Len(trace) |-> trace[Len(trace) + 1 - i]],
     delivered |-> delivered, macTable |-> macTable, minted |-> minted]

\* what a processPacket call hands back, with the MAC table it leaves behind
\* and the number of packet ids it minted
ProcessResult(events, trace, delivered, macTable, minted) ==
    [events |-> events, trace |-> trace, delivered |-> delivered,
     macTable |-> macTable, minted |-> minted]

(* ---------------------------------------------------------------------- *)
(* HostDevice (src/src/devices/HostDevice.ts)                              *)
(* ---------------------------------------------------------------------- *)
HostProcessPacket(node, interfaceId, packet, time, macTable) ==
    IF getInterface(node, interfaceId) = <<>>
    THEN ProcessResult(<<>>, <<createTraceHop(node, time, interfaceId, "drop",
                                   "Invalid interface", packet)>>, FALSE, macTable, 0)
    ELSE IF isPacketForThisDevice(node, packet, interfaceId)
    THEN ProcessResult(<<>>, <<createTraceHop(node, time, interfaceId, "deliver",
                                   "Packet delivered to", packet)>>, TRUE, macTable, 0)
    ELSE ProcessResult(<<>>, <<createTraceHop(node, time, interfaceId, "drop",
                                   "Packet not addressed to this host", packet)>>,
                       FALSE, macTable, 0)

sendPacket(node, dstMac, dstIp, links, time, proto, srcPort, dstPort, packetId) ==
    IF Len(node.interfaces) = 0
    THEN ProcessResult(<<>>, <<>>, FALSE, <<>>, 0)
    ELSE LET iface == node.interfaces[1]
             packet == [id |-> packetId, srcMac |-> iface.mac, dstMac |-> dstMac,
                        srcIp |-> iface.ip.addr, dstIp |-> dstIp, vlan |-> iface.vlan,
                        proto |-> proto, srcPort |-> srcPort, dstPort |-> dstPort,
                        ttl |-> InitialTtl]
             connected == findConnectedInterface(node, links, iface.id)
         IN  IF connected = <<>>
             THEN ProcessResult(<<>>, <<createTraceHop(node, time, iface.id, "drop",
                                            "No link connected", packet)>>, FALSE, <<>>, 1)
             ELSE ProcessResult(
                      <<createForwardEvent(packet, connected[1].nodeId,
                                           connected[1].interfaceId)>>,
                      <<createTraceHop(node, time, iface.id, "forward",
                                       "Sending packet from", packet)>>,
                      FALSE, <<>>, 1)

(* ---------------------------------------------------------------------- *)
(* CloudDevice                                                             *)
(* ---------------------------------------------------------------------- *)
CloudProcessPacket(node, interfaceId, packet, time, macTable) ==
    IF getInterface(node, interfaceId) = <<>>
    THEN ProcessResult(<<>>, <<createTraceHop(node, time, interfaceId, "drop",
                                   "Invalid interface", packet)>>, FALSE, macTable, 0)
    ELSE ProcessResult(<<>>, <<createTraceHop(node, time, interfaceId, "deliver",
                                   "Packet delivered to (Internet)", packet)>>,
                       TRUE, macTable, 0)

(* ---------------------------------------------------------------------- *)
(* SwitchDevice                                                            *)
(* ---------------------------------------------------------------------- *)
VlanRejected == 0 - 1

MapSet(table, key, value) ==
    [k \in (DOMAIN table) \cup {key} |-> IF k = key THEN value ELSE table[k]]

EmptyMap == [k \in {} |-> 0]

resolveVlan(packet, ingressIface) ==
    IF ingressIface.portMode = "access"
    THEN Or(Or(ingressIface.vlan, 1), 1)
    ELSE IF ingressIface.portMode = "trunk"
    THEN LET vlan == Or(packet.vlan, 1)
         IN  IF /\ ingressIface.allowedVlans # NoAllowedVlans
                /\ vlan \notin ingressIface.allowedVlans
             THEN VlanRejected
             ELSE Or(vlan, 1)
    ELSE Or(packet.vlan, 1)

\* learnMacAddress that keeps an entry that is already there
learnMacAddressKeepsEntry(node, mac, interfaceId, vlan, time, macTable, learnId) ==
    LET key == macTableKey(mac, vlan)
    IN  IF key \notin DOMAIN macTable
        THEN [macTable |-> MapSet(macTable, key,
                                  [mac |-> mac, interfaceId |-> interfaceId,
                                   vlan |-> vlan, timestamp |-> time]),
              trace |-> <<createTraceHop(node, time, interfaceId, "learn", "Learned",
                             [id |-> learnId, srcMac |-> mac, dstMac |-> NoMac,
                              srcIp |-> NoIp, dstIp |-> NoIp, vlan |-> NoVlan,
                              proto |-> "icmp", srcPort |-> NoPort, dstPort |-> NoPort,
                              ttl |-> 64])>>,
              minted |-> 1]
        ELSE [macTable |-> macTable, trace |-> <<>>, minted |-> 0]

learnMacAddress(node, mac, interfaceId, vlan, time, macTable, learnId) ==
    LET key == macTableKey(mac, vlan)
    IN  IF key \notin DOMAIN macTable \/ macTable[key].interfaceId # interfaceId
        THEN LET learnPacket == [id |-> learnId, srcMac |-> mac, dstMac |-> NoMac,
                                 srcIp |-> NoIp, dstIp |-> NoIp, vlan |-> NoVlan,
                                 proto |-> "icmp", srcPort |-> NoPort,
                                 dstPort |-> NoPort, ttl |-> 64]
             IN  [macTable |-> MapSet(macTable, key,
                                  [mac |-> mac, interfaceId |-> interfaceId,
                                   vlan |-> vlan, timestamp |-> time]),
                  trace |-> <<createTraceHop(node, time, interfaceId, "learn",
                                             "Learned", learnPacket)>>,
                  minted |-> 1]
        ELSE [macTable |-> macTable, trace |-> <<>>, minted |-> 0]

\* canEgressOnInterface that lets every VLAN leave through an access port
canEgressOnAnyAccessPort(iface, vlan) ==
    IF iface.portMode = "access" THEN TRUE
    ELSE IF iface.portMode = "trunk"
    THEN IF iface.allowedVlans = NoAllowedVlans THEN TRUE
         ELSE vlan \in iface.allowedVlans
    ELSE vlan = 1

canEgressOnInterface(iface, vlan) ==
    IF iface.portMode = "access" THEN iface.vlan = vlan
    ELSE IF iface.portMode = "trunk"
    THEN IF iface.allowedVlans = NoAllowedVlans THEN TRUE
         ELSE vlan \in iface.allowedVlans
    ELSE vlan = 1

\* prepareEgressPacket that leaves the tag on every port
prepareEgressPacketTagged(packet, egressIface) ==
    packet

prepareEgressPacket(packet, egressIface) ==
    IF egressIface.portMode = "access" THEN [packet EXCEPT !.vlan = NoVlan]
    ELSE packet

\* forwardToKnownPort that also sends back through the ingress interface
forwardToKnownPortHairpin(node, egressInterfaceId, packet, ingressInterfaceId, vlan, links, time) ==
    LET found == getInterface(node, egressInterfaceId)
        nothing == [events |-> <<>>, trace |-> <<>>]
    IN  IF found = <<>> THEN nothing
        ELSE LET egressIface == found[1]
                 outPacket == prepareEgressPacket(packet, egressIface)
                 connected == findConnectedInterface(node, links, egressIface.id)
             IN  IF canEgressOnInterface(egressIface, vlan) /\ connected # <<>>
                 THEN [events |-> <<createForwardEvent(outPacket, connected[1].nodeId,
                                                       connected[1].interfaceId)>>,
                       trace |-> <<createTraceHop(node, time, egressIface.id, "forward",
                                                  "Forwarding to known MAC", outPacket)>>]
                 ELSE nothing

\* events and trace hops added by forwardToKnownPort
forwardToKnownPort(node, egressInterfaceId, packet, ingressInterfaceId, vlan, links, time) ==
    LET found == getInterface(node, egressInterfaceId)
        nothing == [events |-> <<>>, trace |-> <<>>]
    IN  IF found = <<>> THEN nothing
        ELSE IF found[1].id = ingressInterfaceId THEN nothing
        ELSE LET egressIface == found[1]
                 outPacket == prepareEgressPacket(packet, egressIface)
                 connected == findConnectedInterface(node, links, egressIface.id)
             IN  IF canEgressOnInterface(egressIface, vlan) /\ connected # <<>>
                 THEN [events |-> <<createForwardEvent(outPacket, connected[1].nodeId,
                                                       connected[1].interfaceId)>>,
                       trace |-> <<createTraceHop(node, time, egressIface.id, "forward",
                                                  "Forwarding to known MAC", outPacket)>>]
                 ELSE nothing

\* floodPacket that does not skip the ingress interface
floodPacketAllPorts(node, packet, ingressInterfaceId, vlan, links, time, isBroadcast) ==
    LET emits(egressIface) ==
            /\ canEgressOnInterface(egressIface, vlan)
            /\ findConnectedInterface(node, links, egressIface.id) # <<>>
        out == SelectSeq(node.interfaces, emits)
        eventVia(egressIface) ==
            LET connected == findConnectedInterface(node, links, egressIface.id)
            IN  createForwardEvent(prepareEgressPacket(packet, egressIface),
                                   connected[1].nodeId, connected[1].interfaceId)
    IN  [events |-> [i \in 1..Len(out) |-> eventVia(out[i])],
         trace |-> <<createTraceHop(node, time, ingressInterfaceId, "flood",
                        IF isBroadcast THEN "Flooding broadcast"
                        ELSE "Unknown destination, flooding", packet)>>]

\* events and trace hops added by floodPacket
floodPacket(node, packet, ingressInterfaceId, vlan, links, time, isBroadcast) ==
    LET emits(egressIface) ==
            /\ egressIface.id # ingressInterfaceId
            /\ canEgressOnInterface(egressIface, vlan)
            /\ findConnectedInterface(node, links, egressIface.id) # <<>>
        out == SelectSeq(node.interfaces, emits)
        eventVia(egressIface) ==
            LET connected == findConnectedInterface(node, links, egressIface.id)
            IN  createForwardEvent(prepareEgressPacket(packet, egressIface),
                                   connected[1].nodeId, connected[1].interfaceId)
    IN  [events |-> [i \in 1..Len(out) |-> eventVia(out[i])],
         trace |-> <<createTraceHop(node, time, ingressInterfaceId, "flood",
                        IF isBroadcast THEN "Flooding broadcast"
                        ELSE "Unknown destination, flooding", packet)>>]

\* a switch that learns whatever its configuration says
macLearningAlwaysOn(node) == TRUE

\* macLearning: config.macLearning ?? true
macLearningOf(node) == node.macLearning # "false"

SwitchProcessPacket(node, interfaceId, packet, links, time, macTable, learnId) ==
    LET found == getInterface(node, interfaceId)
    IN  IF found = <<>>
        THEN ProcessResult(<<>>, <<createTraceHop(node, time, interfaceId, "drop",
                               "Invalid ingress interface", packet)>>, FALSE, macTable, 0)
        ELSE
        LET ingressIface == found[1]
            vlan == resolveVlan(packet, ingressIface)
        IN  IF vlan = VlanRejected
            THEN ProcessResult(<<>>, <<createTraceHop(node, time, interfaceId, "drop",
                                   "VLAN not allowed on trunk", packet)>>,
                               FALSE, macTable, 0)
            ELSE
            LET processedPacket == [packet EXCEPT !.vlan = vlan]
                learned == IF macLearningOf(node)
                           THEN learnMacAddress(node, packet.srcMac, interfaceId, vlan,
                                                time, macTable, learnId)
                           ELSE [macTable |-> macTable, trace |-> <<>>, minted |-> 0]
                receive == createTraceHop(node, time, interfaceId, "receive",
                                          "Packet received on", processedPacket)
                isBroadcast == isBroadcastMac(packet.dstMac) \/ isMulticastMac(packet.dstMac)
                dstKey == macTableKey(packet.dstMac, vlan)
                hasEntry == dstKey \in DOMAIN learned.macTable
                sent == IF ~isBroadcast /\ hasEntry
                        THEN forwardToKnownPort(node, learned.macTable[dstKey].interfaceId,
                                                processedPacket, interfaceId, vlan, links, time)
                        ELSE floodPacket(node, processedPacket, interfaceId, vlan, links,
                                         time, isBroadcast)
            IN  ProcessResult(sent.events, learned.trace \o <<receive>> \o sent.trace,
                              FALSE, learned.macTable, learned.minted)

(* ---------------------------------------------------------------------- *)
(* RouterDevice (src/src/devices/RouterDevice.ts)                          *)
(* ---------------------------------------------------------------------- *)
\* shared by isPacketForRouter and isPacketForFirewall
ownsIp(node, packet) ==
    \E i \in 1..Len(node.interfaces) :
        /\ node.interfaces[i].ip.addr # NoIp
        /\ node.interfaces[i].ip.addr = packet.dstIp

isPacketForRouter(node, packet) == ownsIp(node, packet)

\* the position of the interface findDirectRoute forwards through, 0 if none
findDirectRoute(node, dstIp, ingressInterfaceId, links) ==
    LET usable == {i \in 1..Len(node.interfaces) :
                      /\ node.interfaces[i].id # ingressInterfaceId
                      /\ node.interfaces[i].ip.addr # NoIp
                      /\ ipInSubnet(dstIp, node.interfaces[i].ip)
                      /\ findConnectedInterface(node, links, node.interfaces[i].id) # <<>>}
    IN  IF usable = {} THEN 0 ELSE CHOOSE i \in usable : \A k \in usable : i <= k

\* findStaticRoute that falls back to the first route of the list that
\* contains the destination and can be used
findStaticRouteFallsBack(node, dstIp, links) ==
    LET usable == {i \in 1..Len(node.staticRoutes) :
                      /\ node.staticRoutes[i].prefix.prefix # NaN
                      /\ ipInSubnet(dstIp, node.staticRoutes[i].prefix)
                      /\ getInterface(node, node.staticRoutes[i].outInterface) # <<>>
                      /\ findConnectedInterface(node, links,
                                                node.staticRoutes[i].outInterface) # <<>>}
    IN  IF usable = {} THEN <<>>
        ELSE getInterface(node, node.staticRoutes[CHOOSE i \in usable :
                                                      \A k \in usable : i <= k].outInterface)

\* the egress interface of the best static route, <<>> if it yields no event
findStaticRoute(node, dstIp, links) ==
    LET route == findBestRoute(node.staticRoutes, dstIp)
    IN  IF route = <<>> THEN <<>>
        ELSE LET found == getInterface(node, route[1].outInterface)
             IN  IF found = <<>> THEN <<>>
                 ELSE IF findConnectedInterface(node, links, found[1].id) = <<>> THEN <<>>
                 ELSE found

\* a router that forwards the packet with the TTL it received
decrementTtlForgotten(packet) == packet

\* { ...packet, ttl: packet.ttl - 1 }
decrementTtl(packet) == [packet EXCEPT !.ttl = packet.ttl - 1]

RouterProcessPacket(node, interfaceId, packet, links, time, macTable) ==
    IF getInterface(node, interfaceId) = <<>>
    THEN ProcessResult(<<>>, <<createTraceHop(node, time, interfaceId, "drop",
                           "Invalid ingress interface", packet)>>, FALSE, macTable, 0)
    ELSE IF isPacketForRouter(node, packet)
    THEN ProcessResult(<<>>, <<createTraceHop(node, time, interfaceId, "deliver",
                           "Packet delivered to router", packet)>>, TRUE, macTable, 0)
    ELSE IF packet.ttl <= 1
    THEN ProcessResult(<<>>, <<createTraceHop(node, time, interfaceId, "drop",
                           "TTL expired", packet)>>, FALSE, macTable, 0)
    ELSE
    LET routedPacket == decrementTtl(packet)
        receive == createTraceHop(node, time, interfaceId, "receive",
                                  "Packet received on", routedPacket)
    IN  IF packet.dstIp = NoIp
        THEN ProcessResult(<<>>, <<receive, createTraceHop(node, time, interfaceId, "drop",
                               "No destination IP for routing", routedPacket)>>,
                           FALSE, macTable, 0)
        ELSE
        LET direct == findDirectRoute(node, packet.dstIp, interfaceId, links)
            static == findStaticRoute(node, packet.dstIp, links)
            viaIface(iface, reason) ==
                LET forwardedPacket == [routedPacket EXCEPT !.srcMac = iface.mac]
                    connected == findConnectedInterface(node, links, iface.id)
                IN  ProcessResult(
                        <<createForwardEvent(forwardedPacket, connected[1].nodeId,
                                             connected[1].interfaceId)>>,
                        <<receive, createTraceHop(node, time, iface.id, "route",
                                                  reason, forwardedPacket)>>,
                        FALSE, macTable, 0)
        IN  IF direct # 0
            THEN viaIface(node.interfaces[direct],
                          "Routing to directly connected network via")
            ELSE IF static # <<>>
            THEN viaIface(static[1], "Routing via static route")
            ELSE ProcessResult(<<>>, <<receive, createTraceHop(node, time, interfaceId,
                                   "drop", "No route to", routedPacket)>>,
                               FALSE, macTable, 0)

(* ---------------------------------------------------------------------- *)
(* routerProcess (src/src/simulator/behaviors/router.ts)                   *)
(* ---------------------------------------------------------------------- *)
\* the 'simple check' of routerProcess: the first floor(prefix / 8) octets of
\* the destination equal those of the interface address
octetsMatch(dstIp, cidr) ==
    LET octetsToCheck == cidr.prefix \div 8
    IN  \A i \in 1..octetsToCheck : dstIp[i] = cidr.addr[i]

\* the position of the interface the directly connected loop of
\* routerProcess forwards through, 0 if none
routerProcessDirect(node, dstIp, interfaceId, links) ==
    LET usable == {i \in 1..Len(node.interfaces) :
                      /\ node.interfaces[i].ip.addr # NoIp
                      /\ octetsMatch(dstIp, node.interfaces[i].ip)
                      /\ node.interfaces[i].id # interfaceId
                      /\ getConnectedInterface(links, node.id, node.interfaces[i].id) # <<>>}
    IN  IF usable = {} THEN 0 ELSE CHOOSE i \in usable : \A k \in usable : i <= k

routerProcess(node, interfaceId, packet, links, time) ==
    LET result(events, trace, delivered) ==
            [events |-> events, trace |-> trace, delivered |-> delivered]
    IN
    IF getInterface(node, interfaceId) = <<>>
    THEN result(<<>>, <<createTraceHop(node, time, interfaceId, "drop",
                            "Invalid ingress interface", packet)>>, FALSE)
    ELSE IF ownsIp(node, packet)
    THEN result(<<>>, <<createTraceHop(node, time, interfaceId, "deliver",
                            "Packet delivered to router", packet)>>, TRUE)
    ELSE IF packet.ttl <= 1
    THEN result(<<>>, <<createTraceHop(node, time, interfaceId, "drop",
                            "TTL expired", packet)>>, FALSE)
    ELSE
    LET routedPacket == [packet EXCEPT !.ttl = packet.ttl - 1]
        receive == createTraceHop(node, time, interfaceId, "receive",
                                  "Packet received on", routedPacket)
    IN  IF packet.dstIp = NoIp
        THEN result(<<>>, <<receive, createTraceHop(node, time, interfaceId, "drop",
                                "No destination IP for routing", routedPacket)>>, FALSE)
        ELSE
        LET direct == routerProcessDirect(node, packet.dstIp, interfaceId, links)
            route == findBestRoute(node.staticRoutes, packet.dstIp)
            egress == IF route = <<>> THEN <<>> ELSE getInterface(node, route[1].outInterface)
            viaIface(iface, reason) ==
                LET forwardedPacket == [routedPacket EXCEPT !.srcMac = iface.mac]
                    connected == getConnectedInterface(links, node.id, iface.id)
                IN  result(<<createForwardEvent(forwardedPacket, connected[1].nodeId,
                                                connected[1].interfaceId)>>,
                           <<receive, createTraceHop(node, time, iface.id, "route",
                                                     reason, forwardedPacket)>>,
                           FALSE)
        IN  IF direct # 0
            THEN viaIface(node.interfaces[direct],
                          "Routing to directly connected network via")
            ELSE IF /\ egress # <<>>
                    /\ getConnectedInterface(links, node.id, egress[1].id) # <<>>
            THEN viaIface(egress[1], "Routing via static route")
            ELSE result(<<>>, <<receive, createTraceHop(node, time, interfaceId, "drop",
                                    "No route to", routedPacket)>>, FALSE)

(* ---------------------------------------------------------------------- *)
(* switchProcess (src/src/simulator/behaviors/switch.ts)                   *)
(* ---------------------------------------------------------------------- *)
\* canEgressOnInterface of behaviors/switch.ts
switchCanEgressOnInterface(iface, vlan) ==
    IF iface.portMode = "access" THEN iface.vlan = vlan
    ELSE IF iface.portMode = "trunk"
    THEN IF iface.allowedVlans = NoAllowedVlans THEN TRUE
         ELSE vlan \in iface.allowedVlans
    ELSE vlan = 1

\* prepareEgressPacket of behaviors/switch.ts
switchPrepareEgressPacket(packet, egressIface) ==
    IF egressIface.portMode = "access" THEN [packet EXCEPT !.vlan = NoVlan]
    ELSE packet

\* switchProcess that floods a frame whose destination it has learned on
\* the ingress port
switchProcessFloodsOwnPort(node, interfaceId, packet, links, macTable, time) ==
    LET result(events, trace, table) ==
            [events |-> events, trace |-> trace, macTable |-> table]
        found == getInterface(node, interfaceId)
    IN
    IF found = <<>>
    THEN result(<<>>, <<createTraceHop(node, time, interfaceId, "drop",
                            "Invalid ingress interface", packet)>>, macTable)
    ELSE
    LET ingressIface == found[1]
        tagged == Or(packet.vlan, 1)
    IN
    IF /\ ingressIface.portMode = "trunk"
       /\ ingressIface.allowedVlans # NoAllowedVlans
       /\ tagged \notin ingressIface.allowedVlans
    THEN result(<<>>, <<createTraceHop(node, time, interfaceId, "drop",
                            "VLAN ${vlan} not allowed on trunk", packet)>>, macTable)
    ELSE
    LET vlan == IF ingressIface.portMode = "access"
                THEN Or(Or(ingressIface.vlan, 1), 1)
                ELSE Or(tagged, 1)
        processedPacket == [packet EXCEPT !.vlan = vlan]
        key == macTableKey(packet.srcMac, vlan)
        learns == /\ node.macLearning # "false"
                  /\ key \notin DOMAIN macTable \/ macTable[key].interfaceId # interfaceId
        table == IF learns
                 THEN MapSet(macTable, key, [mac |-> packet.srcMac,
                                             interfaceId |-> interfaceId,
                                             vlan |-> vlan, timestamp |-> time])
                 ELSE macTable
        learn == IF learns
                 THEN <<createTraceHop(node, time, interfaceId, "learn", "Learned",
                                       processedPacket)>>
                 ELSE <<>>
        receive == createTraceHop(node, time, interfaceId, "receive",
                                  "Packet received on", processedPacket)
        isBroadcast == isBroadcastMac(packet.dstMac) \/ isMulticastMac(packet.dstMac)
        dstKey == macTableKey(packet.dstMac, vlan)
        emits(egressIface) ==
            /\ egressIface.id # interfaceId
            /\ switchCanEgressOnInterface(egressIface, vlan)
            /\ getConnectedInterface(links, node.id, egressIface.id) # <<>>
        eventVia(egressIface) ==
            LET connected == getConnectedInterface(links, node.id, egressIface.id)
            IN  [packet |-> switchPrepareEgressPacket(processedPacket, egressIface),
                 nodeId |-> connected[1].nodeId, interfaceId |-> connected[1].interfaceId]
        out == SelectSeq(node.interfaces, emits)
        flooded ==
            result([i \in 1..Len(out) |-> eventVia(out[i])],
                   learn \o <<receive,
                              createTraceHop(node, time, interfaceId, "flood",
                                  IF isBroadcast THEN "Flooding broadcast"
                                  ELSE "Unknown destination, flooding",
                                  processedPacket)>>,
                   table)
    IN
    IF ~isBroadcast /\ dstKey \in DOMAIN table
    THEN LET egress == getInterface(node, table[dstKey].interfaceId)
         IN  IF egress # <<>> /\ egress[1].id = interfaceId THEN flooded
             ELSE IF egress # <<>> /\ emits(egress[1])
             THEN result(<<eventVia(egress[1])>>,
                         learn \o <<receive,
                                    createTraceHop(node, time, egress[1].id, "forward",
                                                   "Forwarding to known MAC",
                                                   eventVia(egress[1]).packet)>>,
                         table)
             ELSE result(<<>>, learn \o <<receive>>, table)
    ELSE flooded

\* switchProcess(node, interfaceId, packet, links, macTable, time), with the
\* MAC table it leaves behind
switchProcess(node, interfaceId, packet, links, macTable, time) ==
    LET result(events, trace, table) ==
            [events |-> events, trace |-> trace, macTable |-> table]
        found == getInterface(node, interfaceId)
    IN
    IF found = <<>>
    THEN result(<<>>, <<createTraceHop(node, time, interfaceId, "drop",
                            "Invalid ingress interface", packet)>>, macTable)
    ELSE
    LET ingressIface == found[1]
        tagged == Or(packet.vlan, 1)
    IN
    IF /\ ingressIface.portMode = "trunk"
       /\ ingressIface.allowedVlans # NoAllowedVlans
       /\ tagged \notin ingressIface.allowedVlans
    THEN result(<<>>, <<createTraceHop(node, time, interfaceId, "drop",
                            "VLAN ${vlan} not allowed on trunk", packet)>>, macTable)
    ELSE
    LET vlan == IF ingressIface.portMode = "access"
                THEN Or(Or(ingressIface.vlan, 1), 1)
                ELSE Or(tagged, 1)
        processedPacket == [packet EXCEPT !.vlan = vlan]
        key == macTableKey(packet.srcMac, vlan)
        learns == /\ node.macLearning # "false"
                  /\ key \notin DOMAIN macTable \/ macTable[key].interfaceId # interfaceId
        table == IF learns
                 THEN MapSet(macTable, key, [mac |-> packet.srcMac,
                                             interfaceId |-> interfaceId,
                                             vlan |-> vlan, timestamp |-> time])
                 ELSE macTable
        learn == IF learns
                 THEN <<createTraceHop(node, time, interfaceId, "learn", "Learned",
                                       processedPacket)>>
                 ELSE <<>>
        receive == createTraceHop(node, time, interfaceId, "receive",
                                  "Packet received on", processedPacket)
        isBroadcast == isBroadcastMac(packet.dstMac) \/ isMulticastMac(packet.dstMac)
        dstKey == macTableKey(packet.dstMac, vlan)
        emits(egressIface) ==
            /\ egressIface.id # interfaceId
            /\ switchCanEgressOnInterface(egressIface, vlan)
            /\ getConnectedInterface(links, node.id, egressIface.id) # <<>>
        eventVia(egressIface) ==
            LET connected == getConnectedInterface(links, node.id, egressIface.id)
            IN  [packet |-> switchPrepareEgressPacket(processedPacket, egressIface),
                 nodeId |-> connected[1].nodeId, interfaceId |-> connected[1].interfaceId]
    IN
    IF ~isBroadcast /\ dstKey \in DOMAIN table
    THEN LET egress == getInterface(node, table[dstKey].interfaceId)
         IN  IF egress # <<>> /\ emits(egress[1])
             THEN result(<<eventVia(egress[1])>>,
                         learn \o <<receive,
                                    createTraceHop(node, time, egress[1].id, "forward",
                                                   "Forwarding to known MAC",
                                                   eventVia(egress[1]).packet)>>,
                         table)
             ELSE result(<<>>, learn \o <<receive>>, table)
    ELSE LET out == SelectSeq(node.interfaces, emits)
         IN  result([i \in 1..Len(out) |-> eventVia(out[i])],
                    learn \o <<receive,
                               createTraceHop(node, time, interfaceId, "flood",
                                   IF isBroadcast THEN "Flooding broadcast"
                                   ELSE "Unknown destination, flooding",
                                   processedPacket)>>,
                    table)

(* ---------------------------------------------------------------------- *)
(* FirewallDevice (src/src/devices/FirewallDevice.ts)                      *)
(* ---------------------------------------------------------------------- *)
isPacketForFirewall(node, packet) == ownsIp(node, packet)

\* a rule address clause: kind "absent", "any", "cidr" (the string has a '/')
\* or "ip"
ipClauseFails(clause, ip) ==
    /\ clause.kind \notin {"absent", "any"}
    /\ ip # NoIp
    /\ IF clause.kind = "cidr" THEN ~ipInSubnet(ip, clause.cidr)
       ELSE clause.cidr.addr # ip

matchesRule(packet, rule) ==
    /\ ~(rule.proto \notin {"", "any"} /\ rule.proto # packet.proto)
    /\ ~ipClauseFails(rule.srcIp, packet.srcIp)
    /\ ~ipClauseFails(rule.dstIp, packet.dstIp)
    /\ ~(rule.srcPort # NoPort /\ packet.srcPort # rule.srcPort)
    /\ ~(rule.dstPort # NoPort /\ packet.dstPort # rule.dstPort)

\* [...rules].sort((a, b) => a.order - b.order), a stable sort
RECURSIVE sortByOrder(_)
sortByOrder(rules) ==
    IF Len(rules) <= 1 THEN rules
    ELSE LET rest == sortByOrder(Tail(rules))
             r == Head(rules)
             before == {i \in 1..Len(rest) : rest[i].order < r.order}
             k == Cardinality(before)
         IN  SubSeq(rest, 1, k) \o <<r>> \o SubSeq(rest, k + 1, Len(rest))

\* defaultPolicy: config.defaultPolicy || 'deny'
defaultPolicyOf(node) == IF node.defaultPolicy = "" THEN "deny" ELSE node.defaultPolicy

\* matchAclRules that walks the rules in the order they are listed
matchAclRulesInListOrder(node, packet) ==
    LET hits == {i \in 1..Len(node.aclRules) : matchesRule(packet, node.aclRules[i])}
    IN  IF hits = {}
        THEN [matched |-> FALSE, action |-> defaultPolicyOf(node), order |-> 0 - 1]
        ELSE LET rule == node.aclRules[CHOOSE i \in hits : \A k \in hits : i <= k]
             IN  [matched |-> TRUE, action |-> rule.action, order |-> rule.order]

matchAclRules(node, packet) ==
    LET sortedRules == sortByOrder(node.aclRules)
        hits == {i \in 1..Len(sortedRules) : matchesRule(packet, sortedRules[i])}
    IN  IF hits = {}
        THEN [matched |-> FALSE, action |-> defaultPolicyOf(node), order |-> 0 - 1]
        ELSE LET rule == sortedRules[CHOOSE i \in hits : \A k \in hits : i <= k]
             IN  [matched |-> TRUE, action |-> rule.action, order |-> rule.order]

\* the position of the interface forwardPacket sends through, 0 if none
\* forwardPacket that does not skip the ingress interface
forwardPacketAnyInterface(node, ingressInterfaceId, links) ==
    LET usable == {i \in 1..Len(node.interfaces) :
                      findConnectedInterface(node, links, node.interfaces[i].id) # <<>>}
    IN  IF usable = {} THEN 0 ELSE CHOOSE i \in usable : \A k \in usable : i <= k

forwardPacket(node, ingressInterfaceId, links) ==
    LET usable == {i \in 1..Len(node.interfaces) :
                      /\ node.interfaces[i].id # ingressInterfaceId
                      /\ findConnectedInterface(node, links, node.interfaces[i].id) # <<>>}
    IN  IF usable = {} THEN 0 ELSE CHOOSE i \in usable : \A k \in usable : i <= k

FirewallProcessPacket(node, interfaceId, packet, links, time, macTable) ==
    IF getInterface(node, interfaceId) = <<>>
    THEN ProcessResult(<<>>, <<createTraceHop(node, time, interfaceId, "drop",
                           "Invalid ingress interface", packet)>>, FALSE, macTable, 0)
    ELSE
    LET receive == createTraceHop(node, time, interfaceId, "receive",
                                  "Packet received on", packet)
        aclResult == matchAclRules(node, packet)
        egress == forwardPacket(node, interfaceId, links)
    IN  IF isPacketForFirewall(node, packet)
        THEN ProcessResult(<<>>, <<receive, createTraceHop(node, time, interfaceId,
                               "deliver", "Packet delivered to firewall", packet)>>,
                           TRUE, macTable, 0)
        ELSE IF aclResult.action = "deny"
        THEN ProcessResult(<<>>, <<receive, createTraceHop(node, time, interfaceId,
                               "acl-deny",
                               IF aclResult.matched THEN "Blocked by ACL rule"
                               ELSE "Blocked by default policy", packet)>>,
                           FALSE, macTable, 0)
        ELSE
        LET allow == createTraceHop(node, time, interfaceId, "acl-allow",
                         IF aclResult.matched THEN "Allowed by ACL rule"
                         ELSE "Allowed by default policy", packet)
        IN  IF egress = 0
            THEN ProcessResult(<<>>, <<receive, allow>>, FALSE, macTable, 0)
            ELSE
            LET egressIface == node.interfaces[egress]
                connected == findConnectedInterface(node, links, egressIface.id)
                forwardedPacket == [packet EXCEPT !.srcMac = egressIface.mac]
            IN  ProcessResult(
                    <<createForwardEvent(forwardedPacket, connected[1].nodeId,
                                         connected[1].interfaceId)>>,
                    <<receive, allow, createTraceHop(node, time, egressIface.id,
                                          "forward", "Forwarding via", forwardedPacket)>>,
                    FALSE, macTable, 0)

(* ---------------------------------------------------------------------- *)
(* GraphAnalyzer (src/src/simulator/GraphAnalyzer.ts)                      *)
(* ---------------------------------------------------------------------- *)
\* obj[name] in the source language: a property the object lacks reads as
\* undefined, and graphlib turns node keys into strings
Prop(obj, name) == IF name \in DOMAIN obj THEN obj[name] ELSE Undefined

buildGraph(topo) ==
    LET edges == {<<Prop(topo.links[i], "sourceNodeId"),
                    Prop(topo.links[i], "targetNodeId")>> : i \in 1..Len(topo.links)}
    IN  [nodes |-> {topo.nodes[i].id : i \in 1..Len(topo.nodes)}
                      \cup {e[1] : e \in edges} \cup {e[2] : e \in edges},
         edges |-> edges]

RECURSIVE GraphClosure(_, _)
GraphClosure(graph, seen) ==
    LET next == seen \cup {e[2] : e \in {d \in graph.edges : d[1] \in seen}}
                     \cup {e[1] : e \in {d \in graph.edges : d[2] \in seen}}
    IN  IF next = seen THEN seen ELSE GraphClosure(graph, next)

\* graph.path(sourceId, targetId) is a call into the graphlib package, which is
\* not part of the repository.  lib = "throws": the Graph object has no such
\* method and the call raises; lib = "search": the call searches the graph that
\* buildGraph built.  TRUE stands for a non-empty path, FALSE for null.
GraphPath(graph, lib, sourceId, targetId) ==
    IF lib = "throws" THEN "raise"
    ELSE IF sourceId \in graph.nodes /\ targetId \in GraphClosure(graph, {sourceId})
    THEN "path" ELSE "null"

\* isReachable with a catch block that answers true
isReachableFailOpen(graph, lib, sourceId, targetId) ==
    LET path == GraphPath(graph, lib, sourceId, targetId)
    IN  IF path = "raise" THEN TRUE ELSE path = "path"

isReachable(graph, lib, sourceId, targetId) ==
    LET path == GraphPath(graph, lib, sourceId, targetId)
    IN  IF path = "raise" THEN FALSE ELSE path = "path"

(* ---------------------------------------------------------------------- *)
(* Topologies and packet specifications the simulator is run on            *)
(* ---------------------------------------------------------------------- *)
Mac(last, lower) == [octets |-> <<2, 170, 0, 0, 0, last>>, lower |-> lower]
Cidr(addr, prefix) == [addr |-> addr, prefix |-> prefix]

IpA == <<10, 0, 0, 10>>
IpB == <<10, 0, 1, 10>>
IpR == <<10, 0, 1, 1>>
IpFar == <<10, 9, 9, 9>>

Iface(id, mac, ip, vlan, portMode, allowedVlans) ==
    [id |-> id, mac |-> mac, ip |-> ip, vlan |-> vlan, portMode |-> portMode,
     allowedVlans |-> allowedVlans]

Node(id, type, interfaces, macLearning, staticRoutes, aclRules, defaultPolicy) ==
    [id |-> id, type |-> type, interfaces |-> interfaces, macLearning |-> macLearning,
     staticRoutes |-> staticRoutes, aclRules |-> aclRules, defaultPolicy |-> defaultPolicy]

Link(id, srcNode, srcIface, dstNode, dstIface) ==
    [id |-> id, source |-> [nodeId |-> srcNode, interfaceId |-> srcIface],
     target |-> [nodeId |-> dstNode, interfaceId |-> dstIface]]

HostIface(mac, ip) == Iface("eth0", mac, ip, NoVlan, "none", NoAllowedVlans)
AccessPort(id, last, vlan) == Iface(id, Mac(last, FALSE), NoCidr, vlan, "access", NoAllowedVlans)
TrunkPort(id, last, allowed) == Iface(id, Mac(last, FALSE), NoCidr, NoVlan, "trunk", allowed)
RoutedPort(id, last, ip) == Iface(id, Mac(last, FALSE), ip, NoVlan, "none", NoAllowedVlans)

HostA == Node("A", "host", <<HostIface(Mac(1, FALSE), Cidr(IpA, 24))>>,
              Undefined, <<>>, <<>>, "")
\* B's MAC is written with lower-case hex letters
HostB == Node("B", "laptop", <<HostIface(Mac(2, TRUE), Cidr(IpB, 24))>>,
              Undefined, <<>>, <<>>, "")
Switch(id, ports, macLearning) == Node(id, "switch", ports, macLearning, <<>>, <<>>, "")
Router(id, ports, routes) == Node(id, "router", ports, Undefined, routes, <<>>, "")
Firewall(id, ports, rules, policy) == Node(id, "firewall", ports, Undefined, <<>>, rules, policy)
Cloud(id) == Node(id, "cloud", <<HostIface(Mac(9, FALSE), Cidr(IpFar, 24))>>,
                  Undefined, <<>>, <<>>, "")

Absent == [kind |-> "absent", cidr |-> NoCidr]
IpClause(ip) == [kind |-> "ip", cidr |-> Cidr(ip, NaN)]
AclRule(order, action, srcIp, dstIp, proto, srcPort, dstPort) ==
    [order |-> order, action |-> action, srcIp |-> srcIp, dstIp |-> dstIp,
     proto |-> proto, srcPort |-> srcPort, dstPort |-> dstPort]
Route(prefix, nextHop, outInterface) ==
    [prefix |-> prefix, nextHop |-> nextHop, outInterface |-> outInterface]

ThreePorts == <<AccessPort("gi1", 11, 1), AccessPort("gi2", 12, 1), AccessPort("gi3", 13, 1)>>

\* S1: two hosts on two access VLAN 1 ports of a learning switch
TopoS1 ==
    [nodes |-> <<HostA, HostB,
                 Switch("SW1", <<AccessPort("gi1", 11, 1), AccessPort("gi2", 12, 1)>>, "true")>>,
     links |-> <<Link("l1", "A", "eth0", "SW1", "gi1"), Link("l2", "SW1", "gi2", "B", "eth0")>>]

\* S6: two hosts and no link
TopoS6 == [nodes |-> <<HostA, HostB>>, links |-> <<>>]

\* a host without any link
TopoAlone == [nodes |-> <<HostA>>, links |-> <<>>]

\* a non-learning switch that floods to a default-deny firewall and to B
TopoFlood ==
    [nodes |-> <<HostA, HostB, Switch("SW1", ThreePorts, "false"),
                 Firewall("F1", <<RoutedPort("eth0", 21, Cidr(<<10, 0, 2, 1>>, 24))>>, <<>>, "")>>,
     links |-> <<Link("l1", "A", "eth0", "SW1", "gi1"), Link("l2", "SW1", "gi2", "F1", "eth0"),
                 Link("l3", "SW1", "gi3", "B", "eth0")>>]

\* S5: host, firewall, host; rule 1 denies icmp to B, default policy allow
TopoS5 ==
    [nodes |-> <<HostA, HostB,
                 Firewall("F1", <<RoutedPort("eth0", 21, Cidr(<<10, 0, 0, 1>>, 24)),
                                  RoutedPort("eth1", 22, Cidr(IpR, 24))>>,
                          <<AclRule(1, "deny", Absent, IpClause(IpB), "icmp", NoPort, NoPort)>>,
                          "allow")>>,
     links |-> <<Link("l1", "A", "eth0", "F1", "eth0"), Link("l2", "F1", "eth1", "B", "eth0")>>]

\* S7: two non-learning switches joined by two parallel links
TopoS7 ==
    [nodes |-> <<HostA, HostB, Switch("SW1", ThreePorts, "false"),
                 Switch("SW2", ThreePorts, "false")>>,
     links |-> <<Link("l1", "A", "eth0", "SW1", "gi1"), Link("l2", "SW1", "gi2", "SW2", "gi1"),
                 Link("l3", "SW1", "gi3", "SW2", "gi2"), Link("l4", "SW2", "gi3", "B", "eth0")>>]

\* S3: a router between two subnets
TopoS3 ==
    [nodes |-> <<HostA, HostB,
                 Router("R1", <<RoutedPort("eth0", 31, Cidr(<<10, 0, 0, 1>>, 24)),
                                RoutedPort("eth1", 32, Cidr(IpR, 24))>>, <<>>)>>,
     links |-> <<Link("l1", "A", "eth0", "R1", "eth0"), Link("l2", "R1", "eth1", "B", "eth0")>>]

\* a host wired to a cloud endpoint, B on its own
TopoCloud ==
    [nodes |-> <<HostA, HostB, Cloud("C1")>>,
     links |-> <<Link("l1", "A", "eth0", "C1", "eth0")>>]

\* a host that tags VLAN 30 on a trunk that allows 10 and 20 only
TopoTrunk ==
    [nodes |-> <<Node("A", "host", <<Iface("eth0", Mac(1, FALSE), Cidr(IpA, 24), 30, "none",
                                           NoAllowedVlans)>>, Undefined, <<>>, <<>>, ""),
                 HostB,
                 Switch("SW1", <<TrunkPort("gi1", 11, {10, 20}), AccessPort("gi2", 12, 10)>>,
                        "true")>>,
     links |-> <<Link("l1", "A", "eth0", "SW1", "gi1"), Link("l2", "SW1", "gi2", "B", "eth0")>>]

\* two routers whose default routes point at each other
TopoRouteLoop ==
    [nodes |-> <<HostA,
                 Router("R1", <<RoutedPort("eth0", 31, Cidr(<<10, 0, 0, 1>>, 24)),
                                RoutedPort("eth1", 32, Cidr(<<10, 0, 5, 1>>, 30))>>,
                        <<Route(Cidr(<<0, 0, 0, 0>>, 0), <<10, 0, 5, 2>>, "eth1")>>),
                 Router("R2", <<RoutedPort("eth0", 33, Cidr(<<10, 0, 5, 2>>, 30))>>,
                        <<Route(Cidr(<<0, 0, 0, 0>>, 0), <<10, 0, 5, 1>>, "eth0")>>)>>,
     links |-> <<Link("l1", "A", "eth0", "R1", "eth0"), Link("l2", "R1", "eth1", "R2", "eth0")>>]

\* a link whose far end names a node that is not in the topology
TopoDangling ==
    [nodes |-> <<HostA, HostB>>,
     links |-> <<Link("l1", "A", "eth0", "X", "eth0")>>]

\* host A without an IP address, linked to host B
TopoBare ==
    [nodes |-> <<Node("A", "host", <<HostIface(Mac(1, FALSE), NoCidr)>>,
                      Undefined, <<>>, <<>>, ""), HostB>>,
     links |-> <<Link("l1", "A", "eth0", "B", "eth0")>>]

\* hosts A and B on VLAN 10 access ports of a non-learning switch that has
\* a trunk to a learning switch
TopoTagged ==
    [nodes |-> <<HostA, HostB,
                 Switch("SW1", <<AccessPort("gi1", 11, 10),
                                 TrunkPort("gi2", 12, NoAllowedVlans),
                                 AccessPort("gi3", 15, 10)>>, "false"),
                 Switch("SW2", <<TrunkPort("gi1", 13, {10}),
                                 AccessPort("gi2", 14, 10)>>, "true")>>,
     links |-> <<Link("l1", "A", "eth0", "SW1", "gi1"), Link("l2", "SW1", "gi2", "SW2", "gi1"),
                 Link("l3", "SW1", "gi3", "B", "eth0")>>]

\* host A in front of a chain of ChainLength routers, each with a default route
\* to the next one
ChainId(k) == "R" \o ToString(k)
ChainRouter(k) ==
    Node(ChainId(k), "router",
         <<RoutedPort("in", 40, Cidr(<<10, 1, k, 1>>, 30)),
           RoutedPort("out", 41, Cidr(<<10, 2, k, 1>>, 30))>>,
         Undefined, <<Route(Cidr(<<0, 0, 0, 0>>, 0), <<10, 2, k, 2>>, "out")>>, <<>>, "")
TopoChain ==
    [nodes |-> <<HostA>> \o [k \in 1..ChainLength |-> ChainRouter(k)],
     links |-> <<Link("l0", "A", "eth0", ChainId(1), "in")>>
                 \o [k \in 1..(ChainLength - 1) |->
                        Link("l" \o ToString(k), ChainId(k), "out", ChainId(k + 1), "in")]]

Topologies == {TopoS1, TopoS6, TopoAlone, TopoFlood, TopoS5, TopoS7, TopoS3, TopoCloud,
               TopoTrunk, TopoRouteLoop, TopoDangling, TopoChain, TopoBare,
               TopoTagged}

PacketSpecs ==
    [srcNodeId : {"A", "B", "SW1", "ghost"},
     dstNodeId : {"A", "B", "SW1", "ghost"},
     dstIp : {NoIp, IpB, IpR, IpFar},
     proto : {"", "tcp"},
     srcPort : {NoPort},
     dstPort : {NoPort}]

(* ---------------------------------------------------------------------- *)
(* Simulator (src/src/devices/HostDevice.ts, class Simulator)              *)
(* ---------------------------------------------------------------------- *)
VARIABLES
    topology,        \* this.topology
    maxHops,         \* this.options.maxHops
    graphLib,        \* which graphlib the build links: "throws" or "search"
    packetSpec,      \* the argument of the simulate calls of this behaviour
    queue,           \* this.eventQueue.queue
    time,            \* this.eventQueue.time
    macTables,       \* this.macTables
    trace,           \* this.trace
    hops,            \* simulate's local hops
    visitedStates,   \* simulate's local visitedStates
    pc,              \* "idle": no call in progress; "loop": inside the main loop
    result,          \* what the last simulate call returned
    idCounter,       \* packet ids minted so far
    calls,           \* simulate calls started in this behaviour
    instanceCalls,   \* simulate calls started on the current Simulator instance
    results,         \* the results returned so far, in call order
    reachable,       \* what the pre-check of the current call returned
    dispatched,      \* the events handed to a device in the current call
    unitNode,        \* the device whose methods are called directly (none in a simulation)
    unitTable,       \* the MacTable handed to the direct calls of a switch
    unit,            \* the last direct call: its arguments and what it returned
    unitCalls,       \* direct calls made so far
    canvas,          \* the editor's store: nodes, edges, connection mode, temporary link
    hook             \* useSimulator: its state, and the messages to and from its worker

simVars == <<topology, maxHops, graphLib, packetSpec, queue, time, macTables, trace, hops,
             visitedStates, pc, result, idCounter, calls, instanceCalls, results, reachable,
             dispatched>>

unitVars == <<unitNode, unitTable, unit, unitCalls, canvas, hook>>

vars == <<simVars, unitVars>>

\* no device is called directly
NoNode == [id |-> "", type |-> "none"]
NoCall == [op |-> "none"]
\* connectionMode.cableType and connectionMode.pendingSource of a new store,
\* and its tempLink
NoCable == ""
NoPending == [nodeId |-> "", portId |-> ""]
NoTempLink == [sourceNodeId |-> "", sourcePortId |-> ""]
NoCanvas == [nodes |-> <<>>, edges |-> <<>>, cableType |-> NoCable,
             pendingSource |-> NoPending, tempLink |-> NoTempLink]

\* useSimulator after its effect has created the worker: useState(false),
\* useState(null), useState(null), nothing posted in either direction
NoSimulation == [of |-> 0]
NoError == "null"
NoHook == [isRunning |-> FALSE, result |-> NoSimulation, error |-> NoError,
           toWorker |-> <<>>, toHook |-> <<>>, posted |-> 0]

NoResult == [success |-> FALSE, delivered |-> FALSE, blocked |-> FALSE, loop |-> FALSE,
             trace |-> <<>>, reason |-> "none"]

Result(success, delivered, blocked, loop, tr, reason) ==
    [success |-> success, delivered |-> delivered, blocked |-> blocked, loop |-> loop,
     trace |-> tr, reason |-> reason]

\* new Map() for every switch of the topology
NewMacTables(topo) ==
    [id \in {topo.nodes[i].id : i \in {j \in 1..Len(topo.nodes) :
                                          topo.nodes[j].type = "switch"}} |-> EmptyMap]

\* a factory that builds a HostDevice for every node type
DeviceClassAlwaysHost(type) == "HostDevice"

\* DeviceFactory.createDevice: the class that serves a node type
DeviceClass(type) ==
    IF type \in {"host", "phone", "server", "laptop"} THEN "HostDevice"
    ELSE IF type = "switch" THEN "SwitchDevice"
    ELSE IF type = "router" THEN "RouterDevice"
    ELSE IF type = "firewall" THEN "FirewallDevice"
    ELSE IF type = "cloud" THEN "CloudDevice"
    ELSE "HostDevice"

processAtDevice(node, interfaceId, packet, t, tables, learnId) ==
    LET class == DeviceClass(node.type)
        macTable == IF node.type = "switch" THEN tables[node.id] ELSE EmptyMap
    IN  IF class = "SwitchDevice"
        THEN SwitchProcessPacket(node, interfaceId, packet, topology.links, t, macTable, learnId)
        ELSE IF class = "RouterDevice"
        THEN RouterProcessPacket(node, interfaceId, packet, topology.links, t, macTable)
        ELSE IF class = "FirewallDevice"
        THEN FirewallProcessPacket(node, interfaceId, packet, topology.links, t, macTable)
        ELSE IF class = "CloudDevice"
        THEN CloudProcessPacket(node, interfaceId, packet, t, macTable)
        ELSE HostProcessPacket(node, interfaceId, packet, t, macTable)

\* an enqueue that puts the new events in front of the queue
EnqueueInFront(q, events, t) ==
    [i \in 1..Len(events) |->
        [packet |-> events[i].packet, nodeId |-> events[i].nodeId,
         interfaceId |-> events[i].interfaceId, time |-> t]] \o q

\* EventQueue.enqueue for each event of a device result, stamped with the clock
Enqueue(q, events, t) ==
    q \o [i \in 1..Len(events) |->
            [packet |-> events[i].packet, nodeId |-> events[i].nodeId,
             interfaceId |-> events[i].interfaceId, time |-> t]]

\* the main loop's condition with the cap compared by <=
LoopConditionOffByOne == queue # <<>> /\ hops <= maxHops

\* the condition of the main loop
LoopCondition == queue # <<>> /\ hops < maxHops

\* a loop-detection key that also holds the event's enqueue time
stateKeyWithTime(event) == <<event.nodeId, event.interfaceId, event.packet.id, event.time>>

\* a loop-detection key without the interface
stateKeyPerNode(event) == <<event.nodeId, event.packet.id>>

\* the key of the loop detection: `${nodeId}-${interfaceId}-${packet.id}`
stateKey(event) == <<event.nodeId, event.interfaceId, event.packet.id>>

\* ExhaustionResult that classifies the last hop before it looks at the cap
ExhaustionResultBlockedAtCap(tr, h, cap) ==
    LET wasBlocked == /\ Len(tr) > 0
                      /\ tr[Len(tr)].action \in {"acl-deny", "drop"}
    IN  Result(FALSE, FALSE, wasBlocked, h >= cap, tr,
               IF h >= cap THEN "Max hops exceeded (possible loop)"
               ELSE IF wasBlocked THEN tr[Len(tr)].reason
               ELSE "Packet did not reach destination")

\* ExhaustionResult whose wasBlocked looks for 'drop' only
ExhaustionResultDropOnly(tr, h, cap) ==
    IF h >= cap
    THEN Result(FALSE, FALSE, FALSE, TRUE, tr, "Max hops exceeded (possible loop)")
    ELSE LET wasBlocked == Len(tr) > 0 /\ tr[Len(tr)].action = "drop"
         IN  Result(FALSE, FALSE, wasBlocked, FALSE, tr,
                    IF wasBlocked THEN tr[Len(tr)].reason
                    ELSE "Packet did not reach destination")

\* ExhaustionResult whose wasBlocked looks for 'acl-deny' only
ExhaustionResultDenyOnly(tr, h, cap) ==
    IF h >= cap
    THEN Result(FALSE, FALSE, FALSE, TRUE, tr, "Max hops exceeded (possible loop)")
    ELSE LET wasBlocked == Len(tr) > 0 /\ tr[Len(tr)].action = "acl-deny"
         IN  Result(FALSE, FALSE, wasBlocked, FALSE, tr,
                    IF wasBlocked THEN tr[Len(tr)].reason
                    ELSE "Packet did not reach destination")

\* ExhaustionResult that never takes the reason from the last hop
ExhaustionResultFixedReason(tr, h, cap) ==
    IF h >= cap
    THEN Result(FALSE, FALSE, FALSE, TRUE, tr, "Max hops exceeded (possible loop)")
    ELSE LET wasBlocked == /\ Len(tr) > 0
                           /\ tr[Len(tr)].action \in {"acl-deny", "drop"}
         IN  Result(FALSE, FALSE, wasBlocked, FALSE, tr, "Packet did not reach destination")

\* ExhaustionResult that reports the hop cap only above it
ExhaustionResultAboveCap(tr, h, cap) ==
    IF h > cap
    THEN Result(FALSE, FALSE, FALSE, TRUE, tr, "Max hops exceeded (possible loop)")
    ELSE LET wasBlocked == /\ Len(tr) > 0
                           /\ tr[Len(tr)].action \in {"acl-deny", "drop"}
         IN  Result(FALSE, FALSE, wasBlocked, FALSE, tr,
                    IF wasBlocked THEN tr[Len(tr)].reason
                    ELSE "Packet did not reach destination")

\* what simulate returns once the main loop is left
ExhaustionResult(tr, h, cap) ==
    IF h >= cap
    THEN Result(FALSE, FALSE, FALSE, TRUE, tr, "Max hops exceeded (possible loop)")
    ELSE LET wasBlocked == /\ Len(tr) > 0
                           /\ tr[Len(tr)].action \in {"acl-deny", "drop"}
         IN  Result(FALSE, FALSE, wasBlocked, FALSE, tr,
                    IF wasBlocked THEN tr[Len(tr)].reason
                    ELSE "Packet did not reach destination")

Init ==
    /\ topology \in Topologies
    /\ maxHops \in (1..MaxHopsBound) \cup {DefaultMaxHops}
    /\ graphLib \in {"throws", "search"}
    /\ packetSpec \in PacketSpecs
    /\ queue = <<>>
    /\ time = 0
    /\ macTables = NewMacTables(topology)
    /\ trace = <<>>
    /\ hops = 0
    /\ visitedStates = {}
    /\ pc = "idle"
    /\ result = NoResult
    /\ idCounter = 0
    /\ calls = 0
    /\ instanceCalls = 0
    /\ results = <<>>
    /\ reachable = "none"
    /\ dispatched = <<>>
    /\ unitNode = NoNode
    /\ unitTable = EmptyMap
    /\ unit = NoCall
    /\ unitCalls = 0
    /\ canvas = NoCanvas
    /\ hook = NoHook

\* the destination of the seed packet that prefers the address of the
\* destination node to the one of the packet specification
seedDestinationNodeFirst(spec, dstNode) ==
    LET dstIfaces == dstNode.interfaces
    IN  [dstMac |-> IF Len(dstIfaces) = 0 THEN BroadcastMac ELSE dstIfaces[1].mac,
         dstIp |-> IF Len(dstIfaces) > 0 /\ dstIfaces[1].ip.addr # NoIp
                   THEN dstIfaces[1].ip.addr ELSE spec.dstIp]

\* dstIface?.mac || 'FF:FF:FF:FF:FF:FF' and
\* packetSpec.dstIp || dstIface?.ip?.split('/')[0] || ''
seedDestination(spec, dstNode) ==
    LET dstIfaces == dstNode.interfaces
    IN  [dstMac |-> IF Len(dstIfaces) = 0 THEN BroadcastMac ELSE dstIfaces[1].mac,
         dstIp |-> IF spec.dstIp # NoIp THEN spec.dstIp
                   ELSE IF Len(dstIfaces) = 0 THEN NoIp ELSE dstIfaces[1].ip.addr]

\* a simulate call returns r
Return(r) ==
    /\ pc' = "idle"
    /\ result' = r
    /\ results' = Append(results, r)

\* simulate, from its entry to the first test of the main loop
Simulate ==
    /\ pc = "idle"
    /\ calls < MaxCalls
    /\ calls' = calls + 1
    /\ instanceCalls' = instanceCalls + 1
    /\ time' = 0
    /\ hops' = 0
    /\ visitedStates' = {}
    /\ dispatched' = <<>>
    /\ UNCHANGED <<topology, maxHops, graphLib, packetSpec, macTables>>
    /\ UNCHANGED unitVars
    /\ LET srcNode == getNodeById(topology.nodes, packetSpec.srcNodeId)
           dstNode == getNodeById(topology.nodes, packetSpec.dstNodeId)
           fail(reason) == /\ Return(Result(FALSE, FALSE, FALSE, FALSE, <<>>, reason))
                           /\ trace' = <<>>
                           /\ queue' = <<>>
                           /\ idCounter' = idCounter
       IN  IF srcNode = <<>>
           THEN fail("Source node not found") /\ reachable' = "none"
           ELSE IF dstNode = <<>>
           THEN fail("Destination node not found") /\ reachable' = "none"
           ELSE
           LET ok == isReachable(buildGraph(topology), graphLib, srcNode[1].id, dstNode[1].id)
               dstMac == seedDestination(packetSpec, dstNode[1]).dstMac
               dstIp == seedDestination(packetSpec, dstNode[1]).dstIp
               proto == IF packetSpec.proto = "" THEN "icmp" ELSE packetSpec.proto
               sendResult == sendPacket(srcNode[1], dstMac, dstIp, topology.links, 0, proto,
                                        packetSpec.srcPort, packetSpec.dstPort, idCounter + 1)
           IN  /\ reachable' = IF ok THEN "yes" ELSE "no"
               /\ IF ~ok
                  THEN fail("No path exists between")
                  ELSE IF DeviceClass(srcNode[1].type) # "HostDevice"
                  THEN fail("Source must be a host device (host, phone, server, laptop)")
                  ELSE /\ trace' = sendResult.trace
                       /\ queue' = Enqueue(<<>>, sendResult.events, 0)
                       /\ idCounter' = idCounter + sendResult.minted
                       /\ pc' = "loop"
                       /\ UNCHANGED <<result, results>>

\* one iteration of the main loop
LoopIteration ==
    /\ pc = "loop"
    /\ LoopCondition
    /\ LET event == Head(queue)
           now == time + 1
           device == getNodeById(topology.nodes, event.nodeId)
       IN  /\ time' = now
           /\ hops' = hops + 1
           /\ IF stateKey(event) \in visitedStates
              THEN /\ Return(Result(FALSE, FALSE, FALSE, TRUE, trace, "Loop detected"))
                   /\ queue' = Tail(queue)
                   /\ UNCHANGED <<visitedStates, trace, macTables, idCounter, dispatched>>
              ELSE /\ visitedStates' = visitedStates \cup {stateKey(event)}
                   /\ IF device = <<>>
                      THEN /\ queue' = Tail(queue)
                           /\ UNCHANGED <<trace, macTables, idCounter, dispatched, pc, result,
                                          results>>
                      ELSE LET processResult ==
                                   processAtDevice(device[1], event.interfaceId, event.packet,
                                                   now, macTables, idCounter + 1)
                           IN  /\ trace' = trace \o processResult.trace
                               /\ idCounter' = idCounter + processResult.minted
                               /\ dispatched' = Append(dispatched,
                                      <<event.nodeId, event.interfaceId, event.packet.id>>)
                               /\ macTables' = IF device[1].type = "switch"
                                               THEN [macTables EXCEPT ![device[1].id] =
                                                        processResult.macTable]
                                               ELSE macTables
                               /\ IF processResult.delivered
                                  THEN /\ Return(Result(TRUE, TRUE, FALSE, FALSE, trace',
                                                        "Packet delivered to"))
                                       /\ queue' = Tail(queue)
                                  ELSE /\ queue' = Enqueue(Tail(queue), processResult.events, now)
                                       /\ UNCHANGED <<pc, result, results>>
    /\ UNCHANGED <<topology, maxHops, graphLib, packetSpec, calls, instanceCalls, reachable>>
    /\ UNCHANGED unitVars

\* the main loop is left because its condition fails
LoopExit ==
    /\ pc = "loop"
    /\ ~LoopCondition
    /\ Return(ExhaustionResult(trace, hops, maxHops))
    /\ UNCHANGED <<topology, maxHops, graphLib, packetSpec, queue, time, macTables, trace,
                   hops, visitedStates, idCounter, calls, instanceCalls, reachable, dispatched>>
    /\ UNCHANGED unitVars

\* new Simulator(topology, options): a fresh instance for the same arguments
NewSimulator ==
    /\ pc = "idle"
    /\ instanceCalls > 0
    /\ calls < MaxCalls
    /\ queue' = <<>>
    /\ time' = 0
    /\ macTables' = NewMacTables(topology)
    /\ trace' = <<>>
    /\ instanceCalls' = 0
    /\ UNCHANGED <<topology, maxHops, graphLib, packetSpec, hops, visitedStates, pc, result,
                   idCounter, calls, results, reachable, dispatched>>
    /\ UNCHANGED unitVars

Next == Simulate \/ LoopIteration \/ LoopExit \/ NewSimulator

Spec == Init /\ [][Next]_vars

(* ---------------------------------------------------------------------- *)
(* Direct calls of the devices' methods and of the exported functions      *)
(* ---------------------------------------------------------------------- *)
Host(id, last) == Node(id, "host", <<HostIface(Mac(last, FALSE), Cidr(IpA, 24))>>,
                       Undefined, <<>>, <<>>, "")

\* a switch with access ports in VLAN 10 and 20, a trunk that allows 10 and
\* 20, a trunk without a list and a port without a mode, a host on each of
\* them, and a VLAN 10 access port without a link
VlanPorts ==
    <<AccessPort("a10", 11, 10), AccessPort("b20", 12, 20), AccessPort("c10", 13, 10),
      TrunkPort("t12", 14, {10, 20}), TrunkPort("tAll", 15, NoAllowedVlans),
      Iface("plain", Mac(16, FALSE), NoCidr, NoVlan, "none", NoAllowedVlans),
      AccessPort("loose", 17, 10)>>

TopoVlans(macLearning) ==
    [nodes |-> <<Switch("SW1", VlanPorts, macLearning)>>
                   \o [k \in 1..Len(VlanPorts) |-> Host("H" \o ToString(k), k)],
     links |-> [k \in 1..(Len(VlanPorts) - 1) |->
                   Link("l" \o ToString(k), "SW1", VlanPorts[k].id, "H" \o ToString(k), "eth0")]]

Frame(srcMac, dstMac, vlan) ==
    [id |-> 1, srcMac |-> srcMac, dstMac |-> dstMac, srcIp |-> IpA, dstIp |-> IpB,
     vlan |-> vlan, proto |-> "icmp", srcPort |-> NoPort, dstPort |-> NoPort,
     ttl |-> InitialTtl]

UnitFrames ==
    {Frame(src, dst, vlan) : src \in {Mac(1, FALSE), Mac(2, TRUE)},
                             dst \in {Mac(1, FALSE), Mac(3, FALSE), BroadcastMac,
                                      MulticastMac},
                             vlan \in {NoVlan, 10, 20, 30}}

\* the frames handed to switchProcess directly: either sender, to the first
\* sender and to everyone, untagged and with a tag the listed trunk allows
\* or refuses
ProcessFrames ==
    {Frame(src, dst, vlan) : src \in {Mac(1, FALSE), Mac(2, TRUE)},
                             dst \in {Mac(1, FALSE), BroadcastMac},
                             vlan \in {NoVlan, 10, 30}}

\* static routes: a default route, nested prefixes of 10.0.1.10, two ways of
\* writing 10.0.1.0/24, a prefix with the top bit set and one without length
UnitRoutes ==
    {Route(Cidr(<<0, 0, 0, 0>>, 0), <<10, 0, 5, 2>>, "eth1"),
     Route(Cidr(<<10, 0, 0, 0>>, 8), <<10, 0, 5, 2>>, "eth1"),
     Route(Cidr(<<10, 0, 1, 0>>, 24), <<10, 0, 5, 2>>, "eth1"),
     Route(Cidr(<<10, 0, 1, 77>>, 24), <<10, 0, 6, 2>>, "eth2"),
     Route(Cidr(IpB, 32), <<10, 0, 6, 2>>, "eth2"),
     Route(Cidr(<<192, 168, 0, 0>>, 16), <<10, 0, 6, 2>>, "eth2"),
     Route(Cidr(IpB, NaN), <<10, 0, 5, 2>>, "eth1")}

RECURSIVE SeqsUpTo(_, _)
SeqsUpTo(S, n) ==
    IF n = 0 THEN {<<>>}
    ELSE LET shorter == SeqsUpTo(S, n - 1)
         IN  shorter \cup {Append(q, x) : q \in shorter, x \in S}

UnitIps == {IpB, IpFar, <<192, 168, 3, 4>>, <<172, 16, 0, 1>>}

\* a router with the given static routes between host A and two next hops
TopoRoutes(routes) ==
    [nodes |-> <<HostA,
                 Router("R1", <<RoutedPort("eth0", 31, Cidr(<<10, 0, 0, 1>>, 24)),
                                RoutedPort("eth1", 32, Cidr(<<10, 0, 5, 1>>, 30)),
                                RoutedPort("eth2", 33, Cidr(<<10, 0, 6, 1>>, 30))>>, routes),
                 Host("N1", 5), Host("N2", 6)>>,
     links |-> <<Link("l1", "A", "eth0", "R1", "eth0"), Link("l2", "R1", "eth1", "N1", "eth0"),
                 Link("l3", "R1", "eth2", "N2", "eth0")>>]

CidrClause(addr, prefix) == [kind |-> "cidr", cidr |-> Cidr(addr, prefix)]

\* ACL rules: two rules of order 1 with opposite actions, two of order 2, one
\* of order 3
UnitRules ==
    {AclRule(1, "deny", Absent, IpClause(IpB), "icmp", NoPort, NoPort),
     AclRule(1, "allow", Absent, Absent, "", NoPort, NoPort),
     AclRule(2, "allow", Absent, CidrClause(<<10, 0, 1, 0>>, 24), "any", NoPort, NoPort),
     AclRule(2, "deny", Absent, Absent, "tcp", NoPort, 80),
     AclRule(3, "deny", Absent, Absent, "", NoPort, NoPort)}

\* host A, a firewall with the given rules and default policy, host B
TopoAcl(rules, policy) ==
    [nodes |-> <<HostA, HostB,
                 Firewall("F1", <<RoutedPort("eth0", 21, Cidr(<<10, 0, 0, 1>>, 24)),
                                  RoutedPort("eth1", 22, Cidr(IpR, 24))>>, rules, policy)>>,
     links |-> <<Link("l1", "A", "eth0", "F1", "eth0"), Link("l2", "F1", "eth1", "B", "eth0")>>]

UnitPackets ==
    {[Frame(Mac(1, FALSE), Mac(21, FALSE), NoVlan)
         EXCEPT !.proto = proto, !.dstIp = dstIp, !.dstPort = dstPort] :
        proto \in {"icmp", "tcp"}, dstIp \in {IpB, IpFar, <<10, 0, 0, 1>>},
        dstPort \in {NoPort, 80}}

\* a firewall with four interfaces, the first without an address, and the
\* given links
TopoPorts(links, rules) ==
    [nodes |-> <<HostA, HostB, Host("N1", 5),
                 Firewall("F1", <<RoutedPort("dmz", 23, NoCidr),
                                  RoutedPort("eth0", 21, Cidr(<<10, 0, 0, 1>>, 24)),
                                  RoutedPort("eth1", 22, Cidr(IpR, 24)),
                                  RoutedPort("eth2", 24, Cidr(<<10, 0, 2, 1>>, 24))>>,
                          rules, "allow")>>,
     links |-> links]

\* the links of those firewalls: none, the ingress side alone, all but the
\* first interface, the next interface left out, links listed against the
\* order of the interfaces, and every interface linked
PortLinks ==
    LET toA == Link("l1", "A", "eth0", "F1", "eth0")
        toB == Link("l2", "F1", "eth1", "B", "eth0")
        toN == Link("l3", "N1", "eth0", "F1", "eth2")
        toD == Link("l4", "F1", "dmz", "N1", "eth0")
    IN  {<<>>, <<toA>>, <<toA, toB, toN>>, <<toA, toN>>, <<toN, toB, toA>>,
         <<toN, toB, toA, toD>>}

PortTopologies ==
    {TopoPorts(links, rules) :
        links \in PortLinks,
        rules \in {<<>>, <<AclRule(2, "deny", Absent, Absent, "tcp", NoPort, 80)>>}}

\* a host-like device of the given type with three interfaces: a MAC
\* written in lower case with an address, a second address, and no address
HostPorts ==
    <<Iface("eth0", Mac(2, TRUE), Cidr(IpB, 24), NoVlan, "none", NoAllowedVlans),
      Iface("eth1", Mac(4, FALSE), Cidr(<<10, 0, 2, 10>>, 24), NoVlan, "none", NoAllowedVlans),
      Iface("eth2", Mac(5, FALSE), NoCidr, NoVlan, "none", NoAllowedVlans)>>

TopoHost(type) ==
    [nodes |-> <<HostA, Node("H", type, HostPorts, Undefined, <<>>, <<>>, "")>>,
     links |-> <<Link("l1", "A", "eth0", "H", "eth0")>>]

HostTopologies == {TopoHost(type) : type \in {"host", "phone", "server", "laptop"}}

\* packets handed to those hosts: to each of their MACs in either case, to
\* another MAC, to broadcast in either case and to a multicast address, with
\* each of their addresses, another address and none
HostPackets ==
    {[Frame(Mac(1, FALSE), dstMac, NoVlan) EXCEPT !.dstIp = dstIp] :
        dstMac \in {Mac(2, FALSE), Mac(2, TRUE), Mac(4, FALSE), Mac(3, FALSE), BroadcastMac,
                    [BroadcastMac EXCEPT !.lower = TRUE], MulticastMac},
        dstIp \in {IpB, <<10, 0, 2, 10>>, IpFar, NoIp}}

\* a rule address written 'any'
AnyClause == [kind |-> "any", cidr |-> NoCidr]

\* rules for matchesRule: every combination of a source address clause and
\* a destination address clause with a protocol and port clause
MatchRules ==
    {AclRule(1, "allow", srcIp, dstIp, rest[1], rest[2], rest[3]) :
        srcIp \in {Absent, IpClause(IpA), CidrClause(<<10, 0, 0, 0>>, 24)},
        dstIp \in {Absent, AnyClause, IpClause(IpB)},
        rest \in {<<"", NoPort, NoPort>>, <<"any", NoPort, 80>>,
                  <<"tcp", 1234, NoPort>>, <<"tcp", NoPort, NoPort>>}}

\* firewalls with one of those rules each
MatchTopologies == {TopoAcl(<<rule>>, "") : rule \in MatchRules}

\* packets for matchesRule: with and without addresses and ports
MatchPackets ==
    {[Frame(Mac(1, FALSE), Mac(21, FALSE), NoVlan)
         EXCEPT !.proto = proto, !.srcIp = srcIp, !.dstIp = dstIp,
                !.srcPort = ports[1], !.dstPort = ports[2]] :
        proto \in {"icmp", "tcp"},
        srcIp \in {IpA, <<10, 0, 0, 99>>, <<10, 0, 9, 9>>, NoIp},
        dstIp \in {IpB, IpFar, NoIp},
        ports \in {<<NoPort, NoPort>>, <<1234, 80>>}}

\* the ports of the routers called directly: the ingress network, a /25
\* without a link, the other /25 of the same /24, a /13, a port without an
\* address, and for some a /0 at the end
DirectPorts(withDefault) ==
    <<RoutedPort("in", 31, Cidr(<<10, 0, 0, 1>>, 24)),
      RoutedPort("lone", 32, Cidr(<<10, 0, 1, 129>>, 25)),
      RoutedPort("half", 33, Cidr(<<10, 0, 1, 1>>, 25)),
      RoutedPort("wide", 34, Cidr(<<10, 8, 0, 1>>, 13)),
      RoutedPort("bare", 35, NoCidr)>>
    \o (IF withDefault THEN <<RoutedPort("any", 36, Cidr(<<172, 16, 0, 9>>, 0))>> ELSE <<>>)

\* static routes of those routers: none, one through an interface the router
\* does not have, one through the port without a link, one that works, and a
\* more specific unusable route in front of a usable default route
DirectRoutes ==
    {<<>>,
     <<Route(Cidr(<<0, 0, 0, 0>>, 0), <<10, 0, 5, 2>>, "eth9")>>,
     <<Route(Cidr(<<192, 168, 0, 0>>, 16), <<10, 0, 1, 130>>, "lone")>>,
     <<Route(Cidr(<<192, 168, 0, 0>>, 16), <<10, 0, 1, 2>>, "half")>>,
     <<Route(Cidr(<<192, 168, 0, 0>>, 16), <<10, 0, 5, 2>>, "eth9"),
       Route(Cidr(<<0, 0, 0, 0>>, 0), <<10, 0, 1, 2>>, "half")>>}

TopoDirect(withDefault, routes) ==
    [nodes |-> <<HostA, Router("R1", DirectPorts(withDefault), routes),
                 Host("N1", 5), Host("N2", 6), Host("N3", 7), Host("N4", 8)>>,
     links |-> <<Link("l1", "A", "eth0", "R1", "in"), Link("l2", "R1", "half", "N1", "eth0"),
                 Link("l3", "N2", "eth0", "R1", "wide"), Link("l4", "R1", "bare", "N3", "eth0"),
                 Link("l5", "R1", "any", "N4", "eth0")>>]

RouterTopologies ==
    {TopoDirect(withDefault, routes) : withDefault \in BOOLEAN, routes \in DirectRoutes}

\* packets handed to the routers: destinations in each /25, in the /13, in
\* the ingress network, behind a static route, in no network of the router,
\* the router's own address, and none
RouterPackets ==
    {[Frame(Mac(1, FALSE), Mac(21, FALSE), NoVlan) EXCEPT !.dstIp = dstIp] :
        dstIp \in {IpB, <<10, 0, 1, 200>>, IpFar, <<10, 0, 0, 77>>, <<192, 168, 3, 4>>,
                   <<11, 1, 1, 1>>, <<10, 0, 1, 1>>, NoIp}}

UnitTopologies ==
    {TopoVlans("true"), TopoVlans(Undefined), TopoVlans("false")}
        \cup RouterTopologies
        \cup MatchTopologies
        \cup HostTopologies
        \cup PortTopologies
        \cup {TopoRoutes(routes) : routes \in SeqsUpTo(UnitRoutes, MaxRoutes)}
        \cup {TopoAcl(rules, policy) : rules \in SeqsUpTo(UnitRules, MaxRules),
                                       policy \in {"", "allow", "deny"}}

\* ---- the editor's side: the store's nodes and edges, and their conversion

NoHandle == ""

\* node.data.config absent: every config?.field reads as undefined
NoConfig == [interfaces |-> <<>>, macLearning |-> Undefined, staticRoutes |-> <<>>,
             aclRules |-> <<>>, defaultPolicy |-> ""]

EditorNode(id, type, config) == [id |-> id, data |-> [type |-> type, config |-> config]]

Edge(id, source, sourceHandle, target, targetHandle) ==
    [id |-> id, source |-> source, sourceHandle |-> sourceHandle,
     target |-> target, targetHandle |-> targetHandle]

\* the port ids the components hand to the store
\* (getPortConfigurations of the host and of the router)
HandlePorts == {"eth0", "l", "r", "t"}

\* handleId.replace(/-source$|-target$/, ''), null for a missing handle
getPortId(handleId) ==
    LET P == {p \in HandlePorts : handleId \in {p \o "-source", p \o "-target"}}
    IN  IF handleId = NoHandle THEN NoHandle
        ELSE IF P = {} THEN handleId
        ELSE CHOOSE p \in P : TRUE

\* what addConnectionState returns for a connection it rejects
NullState == <<Edge("null", "", NoHandle, "", NoHandle)>>

\* addConnectionState that looks for a used port only among the edge ends of
\* the same direction
addConnectionStateSameDirection(edges, connection) ==
    LET sourcePortId == getPortId(connection.sourceHandle)
        targetPortId == getPortId(connection.targetHandle)
        sourcePortInUse ==
            \E i \in 1..Len(edges) :
                edges[i].source = connection.source
                   /\ getPortId(edges[i].sourceHandle) = sourcePortId
        targetPortInUse ==
            \E i \in 1..Len(edges) :
                edges[i].target = connection.target
                   /\ getPortId(edges[i].targetHandle) = targetPortId
        reverseConnection ==
            \E i \in 1..Len(edges) :
                edges[i].source = connection.target /\ edges[i].target = connection.source
    IN  IF connection.source = "" \/ connection.target = "" THEN NullState
        ELSE IF sourcePortInUse \/ targetPortInUse THEN NullState
        ELSE IF reverseConnection THEN NullState
        ELSE Append(edges, Edge("edge-" \o connection.source \o connection.sourceHandle
                                    \o "-" \o connection.target \o connection.targetHandle,
                                connection.source, connection.sourceHandle,
                                connection.target, connection.targetHandle))

\* addConnectionState(state, connection): the edges after the connection,
\* null when it is rejected
addConnectionState(edges, connection) ==
    LET sourcePortId == getPortId(connection.sourceHandle)
        targetPortId == getPortId(connection.targetHandle)
        sourcePortInUse ==
            \E i \in 1..Len(edges) :
                \/ edges[i].source = connection.source
                      /\ getPortId(edges[i].sourceHandle) = sourcePortId
                \/ edges[i].target = connection.source
                      /\ getPortId(edges[i].targetHandle) = sourcePortId
        targetPortInUse ==
            \E i \in 1..Len(edges) :
                \/ edges[i].target = connection.target
                      /\ getPortId(edges[i].targetHandle) = targetPortId
                \/ edges[i].source = connection.target
                      /\ getPortId(edges[i].sourceHandle) = targetPortId
        reverseConnection ==
            \E i \in 1..Len(edges) :
                edges[i].source = connection.target /\ edges[i].target = connection.source
    IN  IF connection.source = "" \/ connection.target = "" THEN NullState
        ELSE IF sourcePortInUse \/ targetPortInUse THEN NullState
        ELSE IF reverseConnection THEN NullState
        ELSE Append(edges, Edge("edge-" \o connection.source \o connection.sourceHandle
                                    \o "-" \o connection.target \o connection.targetHandle,
                                connection.source, connection.sourceHandle,
                                connection.target, connection.targetHandle))

\* addConnection(connection): the store after it
addConnection(store, connection) ==
    LET nextState == addConnectionState(store.edges, connection)
    IN  IF nextState = NullState
        THEN [store EXCEPT !.pendingSource = NoPending, !.tempLink = NoTempLink]
        ELSE [store EXCEPT !.edges = nextState, !.pendingSource = NoPending,
                           !.tempLink = NoTempLink]

\* getInterfaceForConnection(nodes, nodeId, handleId)
getInterfaceForConnection(nodes, nodeId, handleId) ==
    LET found == getNodeById(nodes, nodeId)
    IN  IF found = <<>> THEN "eth0"
        ELSE LET node == found[1]
             IN  IF handleId # NoHandle
                    /\ \E i \in 1..Len(node.interfaces) : node.interfaces[i].id = handleId
                 THEN handleId
                 ELSE IF node.interfaces # <<>> /\ node.interfaces[1].id # ""
                      THEN node.interfaces[1].id
                      ELSE "eth0"

\* convertTopology(nodes, edges)
convertTopology(nodes, edges) ==
    LET simNodes == [i \in 1..Len(nodes) |->
                        Node(nodes[i].id, nodes[i].data.type,
                             nodes[i].data.config.interfaces,
                             nodes[i].data.config.macLearning,
                             nodes[i].data.config.staticRoutes,
                             nodes[i].data.config.aclRules,
                             nodes[i].data.config.defaultPolicy)]
        simLinks == [i \in 1..Len(edges) |->
                        Link(edges[i].id,
                             edges[i].source,
                             getInterfaceForConnection(simNodes, edges[i].source,
                                                       edges[i].sourceHandle),
                             edges[i].target,
                             getInterfaceForConnection(simNodes, edges[i].target,
                                                       edges[i].targetHandle))]
    IN  [nodes |-> simNodes, links |-> simLinks]

\* the canvas of the direct calls: two hosts, the second without a
\* configuration, and a router whose interfaces are named after its left and
\* right ports
CanvasNodes ==
    <<EditorNode("PC1", "host",
                 [NoConfig EXCEPT !.interfaces = <<HostIface(Mac(1, FALSE), Cidr(IpA, 24))>>]),
      EditorNode("PC2", "host", NoConfig),
      EditorNode("R", "router",
                 [NoConfig EXCEPT !.interfaces =
                     <<RoutedPort("l", 3, Cidr(<<10, 0, 0, 1>>, 24)),
                       RoutedPort("r", 4, Cidr(<<10, 0, 1, 1>>, 24))>>])>>

\* the ports drawn on the canvas nodes
CanvasPorts ==
    {[nodeId |-> "PC1", portId |-> "eth0"], [nodeId |-> "PC2", portId |-> "eth0"],
     [nodeId |-> "R", portId |-> "l"], [nodeId |-> "R", portId |-> "r"],
     [nodeId |-> "R", portId |-> "t"]}

\* stored edges: handles that are interface ids, missing handles, and an
\* endpoint that is no longer on the canvas
StoredEdges ==
    {<<Edge("e1", "PC1", "eth0", "R", "r")>>,
     <<Edge("e1", "PC1", NoHandle, "R", NoHandle)>>,
     <<Edge("e1", "R", "r", "gone", "eth0")>>,
     <<Edge("e1", "PC2", "eth0", "R", "l"), Edge("e2", "R", "r", "PC1", "eth0")>>}

\* connections handed to onConnect: handles with and without the suffix,
\* missing handles, a missing source, and both handles of one port
Connection(source, sourceHandle, target, targetHandle) ==
    [source |-> source, target |-> target, sourceHandle |-> sourceHandle,
     targetHandle |-> targetHandle]

DirectConnections ==
    {Connection("", NoHandle, "R", "l-target"),
     Connection("PC1", "eth0", "R", "l"),
     Connection("PC2", NoHandle, "R", NoHandle),
     Connection("PC1", NoHandle, "R", NoHandle),
     Connection("R", "l-source", "R", "l-target"),
     Connection("R", "r-target", "PC2", "eth0-source")}

InterfaceIds(node) == {node.interfaces[i].id : i \in 1..Len(node.interfaces)}

\* the simulator's own variables while methods are called directly: a
\* constructed Simulator on which simulate is not called
SimulatorUnused ==
    /\ maxHops = DefaultMaxHops
    /\ graphLib = "throws"
    /\ packetSpec = [srcNodeId |-> "ghost", dstNodeId |-> "ghost", dstIp |-> NoIp,
                     proto |-> "", srcPort |-> NoPort, dstPort |-> NoPort]
    /\ queue = <<>>
    /\ time = 0
    /\ macTables = NewMacTables(topology)
    /\ trace = <<>>
    /\ hops = 0
    /\ visitedStates = {}
    /\ pc = "idle"
    /\ result = NoResult
    /\ idCounter = 0
    /\ calls = 0
    /\ instanceCalls = 0
    /\ results = <<>>
    /\ reachable = "none"
    /\ dispatched = <<>>

UnitInit ==
    /\ \/ /\ topology \in UnitTopologies
          /\ unitNode \in {topology.nodes[i] : i \in {j \in 1..Len(topology.nodes) :
                                                        \/ topology.nodes[j].type \in
                                                              {"switch", "router", "firewall"}
                                                        \/ /\ topology \in HostTopologies
                                                           /\ topology.nodes[j].id = "H"}}
          /\ canvas = NoCanvas
       \/ /\ topology = [nodes |-> <<>>, links |-> <<>>]
          /\ unitNode = NoNode
          /\ canvas = [NoCanvas EXCEPT !.nodes = CanvasNodes]
    /\ unitTable = EmptyMap
    /\ unit = NoCall
    /\ unitCalls = 0
    /\ hook = NoHook
    /\ SimulatorUnused

\* SwitchDevice.processPacket(interfaceId, packet, links, time, macTable)
SwitchCall ==
    /\ unitNode.type = "switch"
    /\ unitCalls < MaxUnitCalls
    /\ \E interfaceId \in InterfaceIds(unitNode) \cup {"nope"}, packet \in UnitFrames :
          LET out == SwitchProcessPacket(unitNode, interfaceId, packet, topology.links,
                                         unitCalls + 1, unitTable, 1)
          IN  /\ unit' = [op |-> "switch", interfaceId |-> interfaceId, packet |-> packet,
                          out |-> out]
              /\ unitTable' = out.macTable
    /\ unitCalls' = unitCalls + 1
    /\ UNCHANGED <<hook, simVars, unitNode, canvas>>

\* switchProcess(node, interfaceId, packet, links, macTable, time)
SwitchProcessCall ==
    /\ unitNode.type = "switch"
    /\ unitCalls < MaxUnitCalls
    /\ \E interfaceId \in InterfaceIds(unitNode) \cup {"nope"}, packet \in ProcessFrames :
          LET out == switchProcess(unitNode, interfaceId, packet, topology.links,
                                   unitTable, unitCalls + 1)
          IN  /\ unit' = [op |-> "switchProcess", interfaceId |-> interfaceId,
                          packet |-> packet, out |-> out]
              /\ unitTable' = out.macTable
    /\ unitCalls' = unitCalls + 1
    /\ UNCHANGED <<hook, simVars, unitNode, canvas>>

\* findBestRoute(this.staticRoutes, dstIp), as RouterDevice.findStaticRoute calls it
BestRouteCall ==
    /\ unitNode.type = "router"
    /\ unitCalls < MaxUnitCalls
    /\ \E dstIp \in UnitIps :
          unit' = [op |-> "findBestRoute", dstIp |-> dstIp,
                   out |-> findBestRoute(unitNode.staticRoutes, dstIp)]
    /\ unitCalls' = unitCalls + 1
    /\ UNCHANGED <<hook, simVars, unitNode, unitTable, canvas>>

\* RouterDevice.processPacket(interfaceId, packet, links, time)
RouterCall ==
    /\ unitNode.type = "router"
    /\ topology \in RouterTopologies
    /\ unitCalls < MaxUnitCalls
    /\ \E interfaceId \in InterfaceIds(unitNode) \cup {"nope"}, packet \in RouterPackets :
          unit' = [op |-> "router", interfaceId |-> interfaceId, packet |-> packet,
                   out |-> RouterProcessPacket(unitNode, interfaceId, packet,
                                               topology.links, unitCalls + 1, EmptyMap)]
    /\ unitCalls' = unitCalls + 1
    /\ UNCHANGED <<hook, simVars, unitNode, unitTable, canvas>>

\* routerProcess(node, interfaceId, packet, links, time)
RouterProcessCall ==
    /\ unitNode.type = "router"
    /\ topology \in RouterTopologies
    /\ unitCalls < MaxUnitCalls
    /\ \E interfaceId \in InterfaceIds(unitNode) \cup {"nope"}, packet \in RouterPackets :
          unit' = [op |-> "routerProcess", interfaceId |-> interfaceId, packet |-> packet,
                   out |-> routerProcess(unitNode, interfaceId, packet, topology.links,
                                         unitCalls + 1)]
    /\ unitCalls' = unitCalls + 1
    /\ UNCHANGED <<hook, simVars, unitNode, unitTable, canvas>>

\* FirewallDevice.processPacket(interfaceId, packet, links, time), and what
\* its matchAclRules(packet) returns
FirewallCall ==
    /\ unitNode.type = "firewall"
    /\ unitCalls < MaxUnitCalls
    /\ \E interfaceId \in InterfaceIds(unitNode) \cup {"nope"}, packet \in UnitPackets :
          unit' = [op |-> "firewall", interfaceId |-> interfaceId, packet |-> packet,
                   aclResult |-> matchAclRules(unitNode, packet),
                   out |-> FirewallProcessPacket(unitNode, interfaceId, packet,
                                                 topology.links, unitCalls + 1, EmptyMap)]
    /\ unitCalls' = unitCalls + 1
    /\ UNCHANGED <<hook, simVars, unitNode, unitTable, canvas>>

\* setCableType(type)
SetCableType ==
    /\ unitNode = NoNode
    /\ canvas.cableType = NoCable
    /\ canvas' = [canvas EXCEPT !.cableType = "ethernet", !.pendingSource = NoPending,
                                !.tempLink = NoTempLink]
    /\ UNCHANGED <<hook, simVars, unitNode, unitTable, unit, unitCalls>>

\* beginConnection(nodeId, portId)
BeginConnection ==
    /\ unitNode = NoNode
    /\ canvas.cableType # NoCable
    /\ \E start \in CanvasPorts :
          canvas' = [canvas EXCEPT
                        !.pendingSource = [nodeId |-> start.nodeId, portId |-> start.portId],
                        !.tempLink = [sourceNodeId |-> start.nodeId,
                                      sourcePortId |-> start.portId]]
    /\ UNCHANGED <<hook, simVars, unitNode, unitTable, unit, unitCalls>>

\* completeConnection(nodeId, portId): the pending source is connected to
\* the port by addConnection, and cancelled when the port is the source itself
CompleteConnection ==
    /\ unitNode = NoNode
    /\ Len(canvas.edges) < MaxEdges
    /\ canvas.cableType # NoCable
    /\ canvas.pendingSource # NoPending
    /\ \E end \in CanvasPorts :
          IF canvas.pendingSource.nodeId = end.nodeId
                /\ canvas.pendingSource.portId = end.portId
          THEN /\ canvas' = [canvas EXCEPT !.pendingSource = NoPending,
                                           !.tempLink = NoTempLink]
               /\ unit' = [op |-> "cancelConnection"]
          ELSE LET connection == [source |-> canvas.pendingSource.nodeId,
                                  target |-> end.nodeId,
                                  sourceHandle |-> canvas.pendingSource.portId \o "-source",
                                  targetHandle |-> end.portId \o "-target"]
               IN  /\ canvas' = addConnection(canvas, connection)
                   /\ unit' = [op |-> "addConnection", connection |-> connection,
                               rejected |-> addConnectionState(canvas.edges, connection)
                                               = NullState]
    /\ UNCHANGED <<hook, simVars, unitNode, unitTable, unitCalls>>

\* onConnect(connection): addConnection with the connection as it is handed in
OnConnect ==
    /\ unitNode = NoNode
    /\ Len(canvas.edges) < MaxEdges
    /\ \E connection \in DirectConnections :
          /\ canvas' = addConnection(canvas, connection)
          /\ unit' = [op |-> "addConnection", connection |-> connection,
                      rejected |-> addConnectionState(canvas.edges, connection)
                                      = NullState]
    /\ UNCHANGED <<hook, simVars, unitNode, unitTable, unitCalls>>

\* setTopology(nodes, edges): a stored topology replaces the canvas
SetTopology ==
    /\ unitNode = NoNode
    /\ canvas.edges = <<>>
    /\ \E edges \in StoredEdges : canvas' = [canvas EXCEPT !.edges = edges]
    /\ UNCHANGED <<hook, simVars, unitNode, unitTable, unit, unitCalls>>

\* convertTopology(nodes, edges) on the store's nodes and edges
ConvertCall ==
    /\ unitNode = NoNode
    /\ unitCalls < MaxUnitCalls
    /\ unit' = [op |-> "convert", edges |-> canvas.edges,
                out |-> convertTopology(canvas.nodes, canvas.edges)]
    /\ unitCalls' = unitCalls + 1
    /\ UNCHANGED <<hook, simVars, unitNode, unitTable, canvas>>

\* HostDevice.processPacket(interfaceId, packet, links, time)
HostCall ==
    /\ DeviceClass(unitNode.type) = "HostDevice"
    /\ topology \in HostTopologies
    /\ unitCalls < MaxUnitCalls
    /\ \E interfaceId \in InterfaceIds(unitNode) \cup {"nope"}, packet \in HostPackets :
          unit' = [op |-> "host", interfaceId |-> interfaceId, packet |-> packet,
                   out |-> HostProcessPacket(unitNode, interfaceId, packet,
                                             unitCalls + 1, EmptyMap)]
    /\ unitCalls' = unitCalls + 1
    /\ UNCHANGED <<hook, simVars, unitNode, unitTable, canvas>>

\* matchesRule(packet, rule) on a rule of the firewall
MatchesRuleCall ==
    /\ unitNode.type = "firewall"
    /\ topology \in MatchTopologies
    /\ unitCalls < MaxUnitCalls
    /\ \E i \in 1..Len(unitNode.aclRules), packet \in MatchPackets :
          unit' = [op |-> "matchesRule", rule |-> unitNode.aclRules[i], packet |-> packet,
                   out |-> matchesRule(packet, unitNode.aclRules[i])]
    /\ unitCalls' = unitCalls + 1
    /\ UNCHANGED <<hook, simVars, unitNode, unitTable, canvas>>

UnitNext ==
    \/ SwitchCall
    \/ BestRouteCall
    \/ FirewallCall
    \/ HostCall
    \/ MatchesRuleCall
    \/ RouterCall
    \/ RouterProcessCall
    \/ SetCableType
    \/ BeginConnection
    \/ CompleteConnection
    \/ OnConnect
    \/ SetTopology
    \/ ConvertCall

UnitSpec == UnitInit /\ [][UnitNext]_vars

\* the editor's store with connections made on a canvas without edges
EditorInit ==
    /\ UnitInit
    /\ unitNode = NoNode

EditorNext ==
    \/ SetCableType
    \/ BeginConnection
    \/ CompleteConnection
    \/ OnConnect

EditorSpec == EditorInit /\ [][EditorNext]_vars

\* HostDevice.processPacket called directly on the host-like devices
HostInit ==
    /\ UnitInit
    /\ topology \in HostTopologies

HostNext == HostCall

HostSpec == HostInit /\ [][HostNext]_vars

\* switchProcess called directly on the switches of the unit topologies
SwitchInit ==
    /\ UnitInit
    /\ unitNode.type = "switch"

SwitchNext == SwitchProcessCall

SwitchSpec == SwitchInit /\ [][SwitchNext]_vars

(* ---------------------------------------------------------------------- *)
(* useSimulator and its worker (src/unnamed/part_002, simulator/worker.ts) *)
(* ---------------------------------------------------------------------- *)
\* the n-th runSimulation call hands over the n-th topology; `throws` says
\* whether the Simulator raises an exception on it
SimulateMessage(n, throws) == [type |-> "SIMULATE", topology |-> n, throws |-> throws]

\* what simulator.simulate(packet) returns on the n-th topology
SimulationOf(n) == [of |-> n]

\* self.onmessage of worker.ts: the response to a message
WorkerResponse(message) ==
    IF message.throws
    THEN [type |-> "ERROR", error |-> "Unknown simulation error"]
    ELSE [type |-> "SIMULATION_COMPLETE", result |-> SimulationOf(message.topology)]

\* workerRef.current.onmessage of useSimulator: the state after a response
HookStateAfter(state, response) ==
    IF response.type = "SIMULATION_COMPLETE"
    THEN [state EXCEPT !.result = response.result, !.isRunning = FALSE]
    ELSE IF response.type = "ERROR"
    THEN [state EXCEPT !.error = response.error, !.isRunning = FALSE]
    ELSE state

HookInit ==
    /\ topology = [nodes |-> <<>>, links |-> <<>>]
    /\ unitNode = NoNode
    /\ canvas = NoCanvas
    /\ unitTable = EmptyMap
    /\ unit = NoCall
    /\ unitCalls = 0
    /\ hook = NoHook
    /\ SimulatorUnused

\* runSimulation(topology, packet)
RunSimulation ==
    /\ hook.posted < MaxRequests
    /\ \E throws \in BOOLEAN :
          hook' = [hook EXCEPT !.isRunning = TRUE,
                               !.result = NoSimulation,
                               !.error = NoError,
                               !.toWorker = Append(@, SimulateMessage(hook.posted + 1,
                                                                      throws)),
                               !.posted = @ + 1]
    /\ UNCHANGED <<simVars, unitNode, unitTable, unit, unitCalls, canvas>>

\* self.onmessage of the worker on the oldest message posted to it
WorkerOnMessage ==
    /\ hook.toWorker # <<>>
    /\ hook' = [hook EXCEPT !.toWorker = Tail(@),
                            !.toHook = Append(@, WorkerResponse(Head(hook.toWorker)))]
    /\ UNCHANGED <<simVars, unitNode, unitTable, unit, unitCalls, canvas>>

\* workerRef.current.onmessage of the hook on the oldest response
HookOnMessage ==
    /\ hook.toHook # <<>>
    /\ hook' = HookStateAfter([hook EXCEPT !.toHook = Tail(@)], Head(hook.toHook))
    /\ UNCHANGED <<simVars, unitNode, unitTable, unit, unitCalls, canvas>>

HookNext ==
    \/ RunSimulation
    \/ WorkerOnMessage
    \/ HookOnMessage

HookSpec == HookInit /\ [][HookNext]_vars

(* ---------------------------------------------------------------------- *)
(* Vocabulary of the properties                                            *)
(* ---------------------------------------------------------------------- *)
Returned == pc = "idle" /\ calls > 0

LastHop(tr) == tr[Len(tr)]

NodeIds(topo) == {topo.nodes[i].id : i \in 1..Len(topo.nodes)}

\* the undirected graph of the links' endpoint nodes
RECURSIVE LinkClosure(_, _)
LinkClosure(topo, seen) ==
    LET L == {topo.links[i] : i \in 1..Len(topo.links)}
        next == seen \cup {l.target.nodeId : l \in {k \in L : k.source.nodeId \in seen}}
                     \cup {l.source.nodeId : l \in {k \in L : k.target.nodeId \in seen}}
    IN  IF next = seen THEN seen ELSE LinkClosure(topo, next)

LinkConnected(topo, a, b) == b \in LinkClosure(topo, {a})

BothNodesExist ==
    /\ packetSpec.srcNodeId \in NodeIds(topology)
    /\ packetSpec.dstNodeId \in NodeIds(topology)

\* pattern, a sequence of <<node id, action>>, occurs in tr in this order
RECURSIVE HasInOrder(_, _)
HasInOrder(tr, pattern) ==
    IF pattern = <<>> THEN TRUE
    ELSE IF tr = <<>> THEN FALSE
    ELSE IF Head(tr).nodeId = Head(pattern)[1] /\ Head(tr).action = Head(pattern)[2]
    THEN HasInOrder(Tail(tr), Tail(pattern))
    ELSE HasInOrder(Tail(tr), pattern)

\* a result with the minted packet ids blanked
EraseIds(r) ==
    [r EXCEPT !.trace = [i \in 1..Len(r.trace) |->
                            [r.trace[i] EXCEPT !.packet = [r.trace[i].packet EXCEPT !.id = 0]]]]

NoDuplicates(seq) == \A i, j \in 1..Len(seq) : i # j => seq[i] # seq[j]

Range(seq) == {seq[i] : i \in 1..Len(seq)}

(* ---------------------------------------------------------------------- *)
(* Properties                                                              *)
(* ---------------------------------------------------------------------- *)

\* C1: a simulate call dequeues at most maxHops events (hops counts the
\* dequeues), and every step inside the main loop either returns or dequeues
\* one more event, so the loop is left after at most maxHops iterations.
C1_ReturnsWithinMaxHops ==
    /\ [](hops <= maxHops)
    /\ [][pc = "loop" => (pc' = "idle" \/ (hops' = hops + 1 /\ Len(queue) > 0))]_vars

\* C1 witness: the cap stopped a run that still had events queued.
C1_Witness ==
    /\ Returned /\ hops = maxHops /\ queue # <<>>
    /\ result.reason = "Max hops exceeded (possible loop)"

C3_FlagsConsistent ==
    \A i \in 1..Len(results) :
        /\ results[i].success = results[i].delivered
        /\ results[i].delivered => (~results[i].blocked /\ ~results[i].loop)
        /\ ~(results[i].blocked /\ results[i].loop)

\* C3 witness: a call returned a delivered result.
C3_Witness ==
    /\ Returned /\ result.delivered /\ result.success
    /\ results[Len(results)] = result

\* C4: source and destination exist but no chain of links joins them: the
\* call fails with an empty trace and 'No path exists between', and nothing
\* was enqueued or handed to a device.
C4_DisconnectedFailsFast ==
    (/\ Returned
     /\ BothNodesExist
     /\ ~LinkConnected(topology, packetSpec.srcNodeId, packetSpec.dstNodeId))
    => /\ ~result.success /\ ~result.delivered
       /\ result.trace = <<>>
       /\ result.reason = "No path exists between"
       /\ queue = <<>> /\ dispatched = <<>> /\ hops = 0 /\ trace = <<>>

\* C4 witness: the two unlinked hosts of S6, A to B.
C4_Witness ==
    /\ Returned /\ topology = TopoS6
    /\ packetSpec.srcNodeId = "A" /\ packetSpec.dstNodeId = "B"
    /\ result.reason = "No path exists between"

\* C5 as claimed: the pre-check answers true exactly when a chain of links
\* joins source and destination.
C5_ReachableIffLinked ==
    (reachable # "none") =>
        ((reachable = "yes") <=>
            LinkConnected(topology, packetSpec.srcNodeId, packetSpec.dstNodeId))

\* C6 as claimed: S1, A to B through the learning switch, succeeds with the
\* hops A forward, switch learn, switch receive, switch flood, B deliver.
C6_ScenarioS1 ==
    (/\ Returned /\ topology = TopoS1
     /\ packetSpec.srcNodeId = "A" /\ packetSpec.dstNodeId = "B")
    => /\ result.success /\ result.delivered
       /\ HasInOrder(result.trace, <<<<"A", "forward">>, <<"SW1", "learn">>,
                                     <<"SW1", "receive">>, <<"SW1", "flood">>,
                                     <<"B", "deliver">>>>)

\* C7: no device is handed the same (node, interface, packet id) twice in one
\* call, and an iteration that dequeues an event whose triple was already
\* handed to a device returns loop=true at once: no device call, no new hop.
C7_NoTripleProcessedTwice ==
    [][/\ NoDuplicates(dispatched')
       /\ (/\ pc = "loop" /\ queue # <<>> /\ hops' = hops + 1
           /\ <<Head(queue).nodeId, Head(queue).interfaceId, Head(queue).packet.id>>
                  \in Range(dispatched))
          => /\ pc' = "idle"
             /\ result'.loop /\ ~result'.success /\ ~result'.delivered
             /\ result'.reason = "Loop detected"
             /\ dispatched' = dispatched /\ trace' = trace /\ result'.trace = trace]_vars

\* C7 witness: a call that returned 'Loop detected' after devices had run.
C7_Witness ==
    /\ Returned /\ result.loop /\ result.reason = "Loop detected"
    /\ Len(dispatched) > 1

IngressVlan(iface, packet) ==
    IF iface.portMode = "access"
    THEN (IF iface.vlan = NoVlan THEN 1 ELSE iface.vlan)
    ELSE (IF packet.vlan = NoVlan THEN 1 ELSE packet.vlan)

\* the frame's VLAN is refused by the list of the trunk it enters through
RefusedOnTrunk(iface, packet) ==
    /\ iface.portMode = "trunk"
    /\ iface.allowedVlans # NoAllowedVlans
    /\ IngressVlan(iface, packet) \notin iface.allowedVlans

\* the ports of node whose link leads to the place an event is addressed to
EgressPorts(node, links, event) ==
    {node.interfaces[i] : i \in {j \in 1..Len(node.interfaces) :
        \E k \in 1..Len(links) :
            \/ /\ links[k].source = [nodeId |-> node.id, interfaceId |-> node.interfaces[j].id]
               /\ links[k].target = [nodeId |-> event.nodeId, interfaceId |-> event.interfaceId]
            \/ /\ links[k].target = [nodeId |-> node.id, interfaceId |-> node.interfaces[j].id]
               /\ links[k].source = [nodeId |-> event.nodeId,
                                     interfaceId |-> event.interfaceId]}}

PortOf(node, interfaceId) ==
    CHOOSE iface \in Range(node.interfaces) : iface.id = interfaceId

HopsWith(tr, action) == {i \in 1..Len(tr) : tr[i].action = action}

\* the last direct call was a switch call through one of the switch's ports
SwitchCalled == unit.op = "switch" /\ unit.interfaceId \in InterfaceIds(unitNode)

\* C11: a switch call whose frame entered in VLAN A emits no event through an
\* access port of another VLAN, flooded or forwarded by table lookup.
C11_NoEgressOnOtherVlanAccessPort ==
    SwitchCalled =>
        LET A == IngressVlan(PortOf(unitNode, unit.interfaceId), unit.packet)
        IN  \A i \in 1..Len(unit.out.events) :
                \A port \in EgressPorts(unitNode, topology.links, unit.out.events[i]) :
                    port.portMode = "access" => port.vlan = A

\* C11 witness: a frame that entered through the VLAN 10 access port a10 was
\* flooded; it left through c10 (VLAN 10) and not through b20 (VLAN 20).
C11_Witness ==
    /\ SwitchCalled /\ unit.interfaceId = "a10"
    /\ HopsWith(unit.out.trace, "flood") # {}
    /\ \E i \in 1..Len(unit.out.events) : unit.out.events[i].nodeId = "H3"
    /\ \A i \in 1..Len(unit.out.events) : unit.out.events[i].nodeId # "H2"

\* C12: after a learning switch has processed a frame with source MAC M that
\* entered through interface I in VLAN V, its table maps (upper-case M, V) to
\* I and every other entry is as before; the call records one learn hop when
\* the entry was absent or pointed to another interface, none otherwise.
C12_LearnsSourceOnIngress ==
    [][(/\ unit'.op = "switch" /\ unitCalls' = unitCalls + 1
        /\ unit'.interfaceId \in InterfaceIds(unitNode)
        /\ unitNode.macLearning # "false"
        /\ ~RefusedOnTrunk(PortOf(unitNode, unit'.interfaceId), unit'.packet))
       => LET I == unit'.interfaceId
              M == unit'.packet.srcMac
              V == IngressVlan(PortOf(unitNode, I), unit'.packet)
              key == <<[M EXCEPT !.lower = FALSE], V>>
              fresh == key \notin DOMAIN unitTable \/ unitTable[key].interfaceId # I
          IN  /\ key \in DOMAIN unitTable'
              /\ unitTable'[key].interfaceId = I
              /\ DOMAIN unitTable' = DOMAIN unitTable \cup {key}
              /\ \A k \in DOMAIN unitTable : k # key => unitTable'[k] = unitTable[k]
              /\ Cardinality(HopsWith(unit'.out.trace, "learn")) = (IF fresh THEN 1 ELSE 0)]_vars

\* C12 witness: the second frame from the same MAC on the same port and VLAN
\* was received by a learning switch without a learn hop.
C12_Witness ==
    /\ SwitchCalled /\ unitCalls = 2 /\ unitNode.macLearning # "false"
    /\ HopsWith(unit.out.trace, "receive") # {}
    /\ HopsWith(unit.out.trace, "learn") = {}
    /\ unit.packet.srcMac.lower

\* the first prefix bits of ip and of the prefix's address agree, read off
\* the two 16-bit halves of the addresses
Contains(cidr, ip) ==
    LET hi(a) == a[1] * 256 + a[2]
        lo(a) == a[3] * 256 + a[4]
        p == cidr.prefix
    IN  IF p <= 16
        THEN hi(ip) \div Pow2(16 - p) = hi(cidr.addr) \div Pow2(16 - p)
        ELSE /\ hi(ip) = hi(cidr.addr)
             /\ lo(ip) \div Pow2(32 - p) = lo(cidr.addr) \div Pow2(32 - p)

\* the routes of the list, by position, that have a prefix length and contain ip
MatchingRoutes(routes, ip) ==
    {i \in 1..Len(routes) : routes[i].prefix.prefix # NaN /\ Contains(routes[i].prefix, ip)}

\* C13: findBestRoute returns a route that contains the destination and whose
\* prefix is the longest among those that do, the earliest such route of the
\* list, and nothing when no route contains the destination.
C13_LongestPrefixEarliestOnTies ==
    unit.op = "findBestRoute" =>
        LET routes == unitNode.staticRoutes
            matching == MatchingRoutes(routes, unit.dstIp)
            longest == {i \in matching :
                           \A j \in matching : routes[j].prefix.prefix <= routes[i].prefix.prefix}
        IN  IF matching = {} THEN unit.out = <<>>
            ELSE unit.out = <<routes[CHOOSE i \in longest : \A j \in longest : i <= j]>>

\* C13 witness: for 10.0.1.10 and the list /0, 10.0.1.77/24, 10.0.1.0/24 the
\* default route loses and the earlier of the two /24 routes is returned.
C13_Witness ==
    /\ unit.op = "findBestRoute" /\ unit.dstIp = IpB
    /\ unitNode.staticRoutes = <<Route(Cidr(<<0, 0, 0, 0>>, 0), <<10, 0, 5, 2>>, "eth1"),
                                 Route(Cidr(<<10, 0, 1, 77>>, 24), <<10, 0, 6, 2>>, "eth2"),
                                 Route(Cidr(<<10, 0, 1, 0>>, 24), <<10, 0, 5, 2>>, "eth1")>>
    /\ unit.out = <<Route(Cidr(<<10, 0, 1, 77>>, 24), <<10, 0, 6, 2>>, "eth2")>>

\* the events a step of the main loop added at the back of the queue
Enqueued == SubSeq(queue', Len(queue), Len(queue'))

\* a step of the main loop that dequeues an event
Dequeues == pc = "loop" /\ queue # <<>> /\ hops' = hops + 1

\* the node an event is addressed to, once it is known to exist
NodeOf(event) == getNodeById(topology.nodes, event.nodeId)[1]

\* C14: the seed packet has TTL 64; every queued packet has a TTL from 1 to
\* 64; a router emits the packet with a TTL one less than it received, and
\* records 'TTL expired' and emits nothing when it receives a TTL of 1 or less
\* that is not addressed to one of its IPs; other devices emit the TTL they
\* received.
C14_TtlDecreasesAtRouters ==
    /\ [](\A i \in 1..Len(queue) : queue[i].packet.ttl \in 1..64)
    /\ [][/\ (pc = "idle" /\ pc' = "loop")
             => \A i \in 1..Len(queue') : queue'[i].packet.ttl = 64
          /\ (Dequeues /\ getNodeById(topology.nodes, Head(queue).nodeId) # <<>>)
             => LET event == Head(queue)
                    node == NodeOf(event)
                    own == {node.interfaces[i].ip.addr : i \in 1..Len(node.interfaces)} \ {NoIp}
                IN  /\ \A i \in 1..Len(Enqueued) :
                           Enqueued[i].packet.ttl =
                               IF node.type = "router" THEN event.packet.ttl - 1
                               ELSE event.packet.ttl
                    /\ (/\ node.type = "router" /\ event.packet.ttl <= 1
                        /\ event.interfaceId \in InterfaceIds(node)
                        /\ event.packet.dstIp \notin own)
                       => /\ Enqueued = <<>>
                          /\ Len(trace') = Len(trace) + 1
                          /\ LastHop(trace').action = "drop"
                          /\ LastHop(trace').reason = "TTL expired"]_vars

\* C14 witness: the last router of the chain has received the packet with TTL
\* 1 and dropped it.
C14_Witness ==
    /\ pc = "loop" /\ topology = TopoChain /\ hops = ChainLength
    /\ Len(trace) > 0 /\ LastHop(trace).reason = "TTL expired"
    /\ LastHop(trace).packet.ttl = 1

\* the rule that decides: among the rules that match the packet, the one of
\* least order value, the earliest of the list among those of equal order
DecidingRules(rules, packet) ==
    LET matching == {i \in 1..Len(rules) : matchesRule(packet, rules[i])}
    IN  {i \in matching :
            \A j \in matching : \/ rules[i].order < rules[j].order
                                \/ (rules[i].order = rules[j].order /\ i <= j)}

\* C15: the firewall's decision is the action of the deciding rule, or its
\* default policy (deny when none is configured) when no rule matches; a call
\* through any of its interfaces, for a packet not addressed to the firewall,
\* records acl-deny exactly when that decision is deny and acl-allow otherwise.
C15_FirstMatchInAscendingOrder ==
    unit.op = "firewall" =>
        LET rules == unitNode.aclRules
            deciding == DecidingRules(rules, unit.packet)
            expected == IF deciding = {}
                        THEN (IF unitNode.defaultPolicy = "" THEN "deny"
                              ELSE unitNode.defaultPolicy)
                        ELSE rules[CHOOSE i \in deciding : TRUE].action
            own == {unitNode.interfaces[i].ip.addr : i \in 1..Len(unitNode.interfaces)}
        IN  /\ Cardinality(deciding) <= 1
            /\ unit.aclResult.action = expected
            /\ unit.aclResult.matched = (deciding # {})
            /\ (unit.interfaceId \in InterfaceIds(unitNode) /\ unit.packet.dstIp \notin own)
               => /\ (HopsWith(unit.out.trace, "acl-deny") # {}) = (expected = "deny")
                  /\ (HopsWith(unit.out.trace, "acl-allow") # {}) = (expected = "allow")
                  /\ (expected = "deny") => unit.out.events = <<>>

\* C15 witness: the list holds an order 2 allow rule before the order 1 rule
\* that denies icmp to B; an icmp packet to B is denied by rule 1.
C15_Witness ==
    /\ unit.op = "firewall" /\ unit.interfaceId = "eth0"
    /\ unitNode.aclRules =
          <<AclRule(2, "allow", Absent, CidrClause(<<10, 0, 1, 0>>, 24), "any", NoPort, NoPort),
            AclRule(1, "deny", Absent, IpClause(IpB), "icmp", NoPort, NoPort)>>
    /\ unit.packet.proto = "icmp" /\ unit.packet.dstIp = IpB
    /\ unit.aclResult = [matched |-> TRUE, action |-> "deny", order |-> 1]
    /\ HopsWith(unit.out.trace, "acl-deny") # {}

HostLike == {"host", "phone", "server", "laptop"}

SourceNode == getNodeById(topology.nodes, packetSpec.srcNodeId)

FailedWith(reason) ==
    /\ ~result.success /\ ~result.delivered /\ ~result.blocked /\ ~result.loop
    /\ result.trace = <<>>
    /\ result.reason = reason

\* C16 as claimed: a missing source, a missing destination and a source that
\* is not host-like each give a failure with an empty trace and the reason
\* that names it, linked or not.
C16_TopologyFailureNamed ==
    Returned =>
        IF packetSpec.srcNodeId \notin NodeIds(topology)
        THEN FailedWith("Source node not found")
        ELSE IF packetSpec.dstNodeId \notin NodeIds(topology)
        THEN FailedWith("Destination node not found")
        ELSE SourceNode[1].type \notin HostLike
             => FailedWith("Source must be a host device (host, phone, server, laptop)")

\* C16 amended: a missing source and a missing destination are named as
\* claimed; a source that is not host-like fails with an empty trace, named
\* 'Source must be a host device' when the pre-check passed and 'No path
\* exists between' when it did not.
C16_SourceKindNamedAfterPreCheck ==
    Returned =>
        IF packetSpec.srcNodeId \notin NodeIds(topology)
        THEN FailedWith("Source node not found") /\ reachable = "none"
        ELSE IF packetSpec.dstNodeId \notin NodeIds(topology)
        THEN FailedWith("Destination node not found") /\ reachable = "none"
        ELSE SourceNode[1].type \notin HostLike
             => /\ reachable = "yes"
                   => FailedWith("Source must be a host device (host, phone, server, laptop)")
                /\ reachable = "no" => FailedWith("No path exists between")
                /\ reachable # "none"
                /\ queue = <<>> /\ dispatched = <<>>

\* C16 witness: the switch is named as source and destination, the pre-check
\* passed and the call failed on the kind of the source.
C16_Witness ==
    /\ Returned /\ packetSpec.srcNodeId = "SW1" /\ packetSpec.dstNodeId = "SW1"
    /\ reachable = "yes"
    /\ result.reason = "Source must be a host device (host, phone, server, laptop)"

\* the hops a step appended to the trace
Appended == SubSeq(trace', Len(trace) + 1, Len(trace'))

\* C17: the hops recorded at seeding carry time 0; the clock ticks once per
\* dequeue, and the hops appended while the k-th dequeued event is processed
\* carry time k; so the times of a trace never decrease.
C17_HopTimeIsDequeueCount ==
    /\ [](\A i, j \in 1..Len(trace) : i <= j => trace[i].time <= trace[j].time)
    /\ [][/\ (pc = "idle" /\ calls' = calls + 1)
             => /\ time' = 0
                /\ \A i \in 1..Len(trace') : trace'[i].time = 0
          /\ Dequeues
             => /\ time' = time + 1
                /\ time' = hops'
                /\ SubSeq(trace', 1, Len(trace)) = trace
                /\ \A i \in 1..Len(Appended) : Appended[i].time = hops'
          /\ (pc = "loop" /\ ~Dequeues) => (time' = time /\ trace' = trace)]_vars

\* C17 witness: two events have been dequeued; the trace starts with the seed
\* hop at time 0 and ends with a hop at time 2.
C17_Witness ==
    /\ pc = "loop" /\ hops = 2 /\ time = 2
    /\ Len(trace) >= 3 /\ trace[1].time = 0 /\ LastHop(trace).time = 2
    /\ \E i \in 1..Len(trace) : trace[i].time = 1

\* the position in node.interfaces of the ports that lead to an event's place
EgressPositions(node, links, event) ==
    {i \in 1..Len(node.interfaces) :
        node.interfaces[i] \in EgressPorts(node, links, event)}

\* C18: the event a step processes is the oldest of the queue; the events that
\* were waiting keep their order ahead of the new ones; the events of one
\* device call are appended in the order of the device's interfaces; the
\* queue is ordered by the time the events were enqueued.
C18_FifoQueue ==
    /\ [](\A i, j \in 1..Len(queue) : i <= j => queue[i].time <= queue[j].time)
    /\ [][Dequeues
          => /\ SubSeq(queue', 1, Len(queue) - 1) = Tail(queue)
             /\ Len(dispatched') > Len(dispatched)
                => LastHop(dispatched') = <<Head(queue).nodeId, Head(queue).interfaceId,
                                            Head(queue).packet.id>>
             /\ \A i \in 1..Len(Enqueued) :
                   /\ Enqueued[i].time = time'
                   /\ Enqueued[i].time > Head(queue).time
             /\ \A i, j \in 1..Len(Enqueued) :
                   i < j => \A a \in EgressPositions(NodeOf(Head(queue)), topology.links,
                                                     Enqueued[i]) :
                            \A b \in EgressPositions(NodeOf(Head(queue)), topology.links,
                                                     Enqueued[j]) : a < b]_vars

\* C18 witness: on the two switches joined by two links, three events wait,
\* enqueued at different times, behind the copies a flood sent through two
\* ports.
C18_Witness ==
    /\ pc = "loop" /\ topology = TopoS7 /\ Len(queue) >= 3
    /\ queue[1].time < queue[Len(queue)].time
    /\ queue[Len(queue) - 1].time = queue[Len(queue)].time
    /\ queue[Len(queue) - 1].interfaceId # queue[Len(queue)].interfaceId

\* the interface id the conversion is specified to give an endpoint: the
\* handle's port id when it names an interface of the node, otherwise the
\* node's first interface id, 'eth0' when there is none
EndpointInterface(nodes, nodeId, handleId) ==
    LET found == getNodeById(nodes, nodeId)
        portId == getPortId(handleId)
    IN  IF found = <<>> THEN "eth0"
        ELSE IF portId \in InterfaceIds(found[1]) THEN portId
        ELSE IF found[1].interfaces # <<>> THEN found[1].interfaces[1].id
        ELSE "eth0"

\* the two endpoints of the i-th edge of a conversion: node, handle, and the
\* interface id of the link made from it
Endpoints(call, i) ==
    {[nodeId |-> call.edges[i].source, handleId |-> call.edges[i].sourceHandle,
      interfaceId |-> call.out.links[i].source.interfaceId],
     [nodeId |-> call.edges[i].target, handleId |-> call.edges[i].targetHandle,
      interfaceId |-> call.out.links[i].target.interfaceId]}

\* C19: convertTopology maps each edge to a link whose interface id at each
\* endpoint is the edge's handle id without its trailing '-source' or
\* '-target' when that names an interface of the node, and otherwise the
\* node's first interface id ('eth0' when it has none); so two edges attached
\* to different ports of one node, each naming an interface, give links on
\* different interfaces of that node.
C19_LinksOnHandlePorts ==
    unit.op = "convert" =>
        /\ Len(unit.out.links) = Len(unit.edges)
        /\ \A i \in 1..Len(unit.edges) : \A e \in Endpoints(unit, i) :
               e.interfaceId = EndpointInterface(unit.out.nodes, e.nodeId, e.handleId)
        /\ \A i, j \in 1..Len(unit.edges) :
               \A e \in Endpoints(unit, i), f \in Endpoints(unit, j) :
                   (/\ e.nodeId = f.nodeId
                    /\ getPortId(e.handleId) # getPortId(f.handleId)
                    /\ \E k \in 1..Len(unit.out.nodes) :
                          /\ unit.out.nodes[k].id = e.nodeId
                          /\ {getPortId(e.handleId), getPortId(f.handleId)}
                                 \subseteq InterfaceIds(unit.out.nodes[k]))
                   => e.interfaceId # f.interfaceId

\* C19, the part the code keeps: every edge gives one link with the edge's
\* id and end nodes, and a handle that is itself an interface id of its node
\* is the link's interface id there.
C19_BareHandlesKept ==
    unit.op = "convert" =>
        /\ Len(unit.out.links) = Len(unit.edges)
        /\ \A i \in 1..Len(unit.edges) :
               /\ unit.out.links[i].id = unit.edges[i].id
               /\ unit.out.links[i].source.nodeId = unit.edges[i].source
               /\ unit.out.links[i].target.nodeId = unit.edges[i].target
               /\ \A e \in Endpoints(unit, i) :
                      (\E k \in 1..Len(unit.out.nodes) :
                          /\ unit.out.nodes[k].id = e.nodeId
                          /\ e.handleId \in InterfaceIds(unit.out.nodes[k]))
                      => e.interfaceId = e.handleId

\* a conversion of two editor-made edges on the left and the right port of the router
C19_TwoPortsOfOneNode ==
    /\ unit.op = "convert"
    /\ Len(unit.edges) = 2
    /\ \E i, j \in 1..2 :
          /\ unit.edges[i].target = "R" /\ unit.edges[i].targetHandle = "l-target"
          /\ unit.edges[j].source = "R" /\ unit.edges[j].sourceHandle = "r-source"

\* a returned call on the two switches joined by two links, whose frame came
\* from host A and was flooded by a switch
FloodedOnS7 ==
    /\ Returned
    /\ topology = TopoS7
    /\ packetSpec.srcNodeId = "A"
    /\ HopsWith(result.trace, "flood") # {}

QueueDrained == pc = "loop" /\ pc' = "idle" /\ queue = <<>>

\* the final trace hop is an acl-deny or a drop
EndsBlocked(tr) == Len(tr) > 0 /\ LastHop(tr).action \in {"acl-deny", "drop"}

SwitchSwitched ==
    /\ SwitchCalled
    /\ ~RefusedOnTrunk(PortOf(unitNode, unit.interfaceId), unit.packet)

\* the destination of the last call's frame is neither broadcast nor multicast
UnicastDestination == ~isBroadcastMac(unit.packet.dstMac) /\ ~isMulticastMac(unit.packet.dstMac)

\* the table key of the last call's destination in the VLAN the frame entered in
DestinationKey ==
    <<[unit.packet.dstMac EXCEPT !.lower = FALSE],
      IngressVlan(PortOf(unitNode, unit.interfaceId), unit.packet)>>

\* the table the lookup of the last call read: the one the call left behind
KnownDestination == UnicastDestination /\ DestinationKey \in DOMAIN unit.out.macTable

\* the place the link of a port leads to, none when the port has no link
PeersOf(node, links, interfaceId) ==
    {links[k].target : k \in {j \in 1..Len(links) :
        links[j].source = [nodeId |-> node.id, interfaceId |-> interfaceId]}}
    \cup {links[k].source : k \in {j \in 1..Len(links) :
        links[j].target = [nodeId |-> node.id, interfaceId |-> interfaceId]}}

\* the events of the last call are what the unicast branch may send: nothing,
\* or one event to the peer of the table's interface
SentAsUnicast ==
    /\ HopsWith(unit.out.trace, "flood") = {}
    /\ Len(unit.out.events) <= 1
    /\ \A i \in 1..Len(unit.out.events) :
          [nodeId |-> unit.out.events[i].nodeId,
           interfaceId |-> unit.out.events[i].interfaceId]
              \in PeersOf(unitNode, topology.links,
                          unit.out.macTable[DestinationKey].interfaceId)

\* C22 as stated: a switch takes the unicast branch iff the destination is
\* unicast and its table has an entry for it in the effective VLAN whose
\* interface differs from the ingress interface; in every other case,
\* an entry pointing back at the ingress interface included, it floods.
C22_UnicastOrFlood ==
    SwitchSwitched =>
        IF KnownDestination
           /\ unit.out.macTable[DestinationKey].interfaceId # unit.interfaceId
        THEN SentAsUnicast
        ELSE Cardinality(HopsWith(unit.out.trace, "flood")) = 1

\* C22, amended: a switch floods iff the destination is broadcast or
\* multicast or its table has no entry for the destination in the effective
\* VLAN. With an entry it records no flood hop and sends one event, to the
\* peer of the entry's interface, behind one forward hop, exactly when that
\* interface is a port of the switch other than the ingress port, may
\* transmit for the VLAN and has a peer; otherwise, as for an entry that
\* points back at the ingress port, it sends nothing and records no forward
\* hop.
C22_FloodOnlyWithoutEntry ==
    SwitchSwitched =>
        /\ Cardinality(HopsWith(unit.out.trace, "flood")) = (IF KnownDestination THEN 0 ELSE 1)
        /\ KnownDestination =>
              LET E == unit.out.macTable[DestinationKey].interfaceId
                  V == DestinationKey[2]
                  sends == /\ E \in InterfaceIds(unitNode)
                           /\ E # unit.interfaceId
                           /\ LET port == PortOf(unitNode, E)
                              IN  \/ port.portMode = "access" /\ port.vlan = V
                                  \/ /\ port.portMode = "trunk"
                                     /\ (port.allowedVlans = NoAllowedVlans
                                            \/ V \in port.allowedVlans)
                                  \/ port.portMode \notin {"access", "trunk"} /\ V = 1
                           /\ PeersOf(unitNode, topology.links, E) # {}
              IN  /\ SentAsUnicast
                  /\ Len(unit.out.events) = (IF sends THEN 1 ELSE 0)
                  /\ Cardinality(HopsWith(unit.out.trace, "forward")) = Len(unit.out.events)
                  /\ \A i \in HopsWith(unit.out.trace, "forward") :
                         unit.out.trace[i].interfaceId = E

\* C22 witness: the table of the switch holds the destination on the port
\* the frame came in through; nothing is sent and no flood hop is recorded.
C22_Witness ==
    /\ SwitchSwitched /\ KnownDestination
    /\ unit.out.macTable[DestinationKey].interfaceId = unit.interfaceId
    /\ unit.packet.srcMac # unit.packet.dstMac
    /\ unit.out.events = <<>>
    /\ HopsWith(unit.out.trace, "flood") = {}

\* the last switch call flooded
Flooded == SwitchSwitched /\ HopsWith(unit.out.trace, "flood") # {}

\* the events of the last call addressed to the peer of a port of the switch
EventsThrough(interfaceId) ==
    {i \in 1..Len(unit.out.events) :
        [nodeId |-> unit.out.events[i].nodeId, interfaceId |-> unit.out.events[i].interfaceId]
            \in PeersOf(unitNode, topology.links, interfaceId)}

\* a port may transmit for VLAN V: an access port of VLAN V, or a trunk
\* without a list of allowed VLANs or with V in its list
AccessOrTrunkFor(port, V) ==
    \/ port.portMode = "access" /\ port.vlan = V
    \/ /\ port.portMode = "trunk"
       /\ (port.allowedVlans = NoAllowedVlans \/ V \in port.allowedVlans)

\* C23 as stated: in a flood for effective VLAN V a switch emits one event
\* through interface E iff E is not the ingress interface, has a peer, and
\* is an access port of VLAN V or a trunk with no allowed-VLAN set or with V
\* in it; so at most k-1 events for k interfaces, none through the ingress.
C23_FloodThroughAccessOrTrunk ==
    Flooded =>
        LET V == IngressVlan(PortOf(unitNode, unit.interfaceId), unit.packet)
        IN  /\ \A E \in InterfaceIds(unitNode) :
                  Cardinality(EventsThrough(E)) =
                      (IF /\ E # unit.interfaceId
                          /\ PeersOf(unitNode, topology.links, E) # {}
                          /\ AccessOrTrunkFor(PortOf(unitNode, E), V)
                       THEN 1 ELSE 0)
            /\ Len(unit.out.events) <= Len(unitNode.interfaces) - 1
            /\ EventsThrough(unit.interfaceId) = {}

\* C23, amended: as stated, with one more kind of admissible port: a port
\* that is neither access nor trunk transmits for VLAN 1, and for no other.
C23_FloodThroughAdmissible ==
    Flooded =>
        LET V == IngressVlan(PortOf(unitNode, unit.interfaceId), unit.packet)
        IN  /\ \A E \in InterfaceIds(unitNode) :
                  Cardinality(EventsThrough(E)) =
                      (IF /\ E # unit.interfaceId
                          /\ PeersOf(unitNode, topology.links, E) # {}
                          /\ \/ AccessOrTrunkFor(PortOf(unitNode, E), V)
                             \/ /\ PortOf(unitNode, E).portMode \notin {"access", "trunk"}
                                /\ V = 1
                       THEN 1 ELSE 0)
            /\ Len(unit.out.events) =
                  Cardinality(UNION {EventsThrough(E) : E \in InterfaceIds(unitNode)})
            /\ Len(unit.out.events) <= Len(unitNode.interfaces) - 1
            /\ EventsThrough(unit.interfaceId) = {}

\* C23 witness: an untagged frame that entered through the trunk without a
\* list was flooded in VLAN 1; it left through the port without a mode and
\* through no access port.
C23_Witness ==
    /\ Flooded /\ unit.interfaceId = "tAll" /\ unit.packet.vlan = NoVlan
    /\ Cardinality(EventsThrough("plain")) = 1
    /\ EventsThrough("a10") = {} /\ EventsThrough("loose") = {}

\* the effective VLAN as specified: the port's VLAN on an access port, the
\* frame's tag on a trunk, 1 where either is missing and on any other port
SpecifiedVlan(iface, packet) ==
    IF iface.portMode = "access" THEN (IF iface.vlan = NoVlan THEN 1 ELSE iface.vlan)
    ELSE IF iface.portMode = "trunk" THEN (IF packet.vlan = NoVlan THEN 1 ELSE packet.vlan)
    ELSE 1

\* C24: the effective VLAN a switch assigns at ingress, carried by the frame
\* of its receive hop, is the port's VLAN (1 if none) on an access port, the
\* frame's tag (1 if untagged) on a trunk, and 1 on a port of any other or
\* no mode whatever the tag; a trunk whose allowed-VLAN set lacks the VLAN
\* drops the frame with no event.
C24_EffectiveVlanAtIngress ==
    SwitchCalled =>
        LET port == PortOf(unitNode, unit.interfaceId)
            V == SpecifiedVlan(port, unit.packet)
        IN  IF port.portMode = "trunk" /\ port.allowedVlans # NoAllowedVlans
               /\ V \notin port.allowedVlans
            THEN /\ unit.out.events = <<>>
                 /\ Len(unit.out.trace) = 1
                 /\ unit.out.trace[1].action = "drop"
                 /\ unit.out.trace[1].reason = "VLAN not allowed on trunk"
            ELSE /\ Cardinality(HopsWith(unit.out.trace, "receive")) = 1
                 /\ \A i \in HopsWith(unit.out.trace, "receive") :
                        unit.out.trace[i].packet.vlan = V

\* the VLAN of the frame in the receive hop of the last switch call: the
\* effective VLAN the switch determined at ingress
ReceivedVlan ==
    LET i == CHOOSE j \in HopsWith(unit.out.trace, "receive") : TRUE
    IN  unit.out.trace[i].packet.vlan

\* C25: every event a switch emits through an access port carries no VLAN
\* tag, and every event it emits through a trunk port carries the effective
\* VLAN determined at ingress, also when the frame arrived untagged through
\* an access port.
C25_TagStrippedOnAccessKeptOnTrunk ==
    SwitchSwitched =>
        /\ ReceivedVlan # NoVlan
        /\ \A E \in InterfaceIds(unitNode) : \A i \in EventsThrough(E) :
               /\ PortOf(unitNode, E).portMode = "access"
                     => unit.out.events[i].packet.vlan = NoVlan
               /\ PortOf(unitNode, E).portMode = "trunk"
                     => unit.out.events[i].packet.vlan = ReceivedVlan

\* C25 witness: an untagged frame entered through the VLAN 10 access port
\* a10 and was flooded; the copy through the trunk t12 is tagged 10, the copy
\* through the access port c10 is untagged.
C25_Witness ==
    /\ Flooded /\ unit.interfaceId = "a10" /\ unit.packet.vlan = NoVlan
    /\ \E i \in EventsThrough("t12") : unit.out.events[i].packet.vlan = 10
    /\ \E i \in EventsThrough("c10") : unit.out.events[i].packet.vlan = NoVlan

\* the last direct call handed a router, through one of its interfaces, a
\* packet that it has to route: not addressed to the router, TTL above 1,
\* with a destination address
RouterRouted ==
    /\ unit.op \in {"router", "routerProcess"}
    /\ unit.interfaceId \in InterfaceIds(unitNode)
    /\ unit.packet.dstIp # NoIp
    /\ unit.packet.ttl > 1
    /\ \A i \in 1..Len(unitNode.interfaces) :
          unitNode.interfaces[i].ip.addr # unit.packet.dstIp

\* the interfaces of the router, by position, other than the ingress
\* interface, whose subnet contains the destination of the last call and
\* whose link has a peer
ConnectedNetworks ==
    {i \in 1..Len(unitNode.interfaces) :
        /\ unitNode.interfaces[i].id # unit.interfaceId
        /\ unitNode.interfaces[i].ip.addr # NoIp
        /\ unitNode.interfaces[i].ip.prefix # NaN
        /\ Contains(unitNode.interfaces[i].ip, unit.packet.dstIp)
        /\ PeersOf(unitNode, topology.links, unitNode.interfaces[i].id) # {}}

\* the last call sent one event through the interface at position i, with
\* that interface's MAC as source, behind a route hop with the given reason
RoutedThrough(i, reason) ==
    /\ Len(unit.out.events) = 1
    /\ [nodeId |-> unit.out.events[1].nodeId, interfaceId |-> unit.out.events[1].interfaceId]
          \in PeersOf(unitNode, topology.links, unitNode.interfaces[i].id)
    /\ unit.out.events[1].packet =
          [unit.packet EXCEPT !.ttl = unit.packet.ttl - 1, !.srcMac = unitNode.interfaces[i].mac]
    /\ Cardinality(HopsWith(unit.out.trace, "route")) = 1
    /\ \A h \in HopsWith(unit.out.trace, "route") :
          /\ unit.out.trace[h].reason = reason
          /\ unit.out.trace[h].interfaceId = unitNode.interfaces[i].id
          /\ unit.out.trace[h].packet = unit.out.events[1].packet

\* C26: a router, in RouterDevice.processPacket and in routerProcess alike,
\* forwards to a directly connected network through the first interface in
\* configured order, other than the ingress interface, whose CIDR subnet
\* (any prefix length from 0 to 32) contains the destination and whose link
\* has a peer, with the source MAC rewritten to that interface's MAC; and it
\* forwards to a directly connected network in no other case.
C26_DirectRouteByCidr ==
    RouterRouted =>
        IF ConnectedNetworks # {}
        THEN RoutedThrough(CHOOSE i \in ConnectedNetworks : \A k \in ConnectedNetworks : i <= k,
                           "Routing to directly connected network via")
        ELSE \A h \in HopsWith(unit.out.trace, "route") :
                unit.out.trace[h].reason # "Routing to directly connected network via"

\* the positions of the hops of the last call that record the drop
\* 'No route to <dst-ip>'
NoRouteHops ==
    {h \in HopsWith(unit.out.trace, "drop") : unit.out.trace[h].reason = "No route to"}

\* some interface of the router other than the ingress interface has a
\* subnet that contains the destination of the last call
SubnetContainsDestination ==
    \E i \in 1..Len(unitNode.interfaces) :
        /\ unitNode.interfaces[i].id # unit.interfaceId
        /\ unitNode.interfaces[i].ip.addr # NoIp
        /\ unitNode.interfaces[i].ip.prefix # NaN
        /\ Contains(unitNode.interfaces[i].ip, unit.packet.dstIp)

\* the static routes of the router, by position, that the longest-prefix
\* lookup selects for the destination of the last call: the earliest route of
\* maximal prefix length among those that contain it (one position or none)
BestStaticRoute ==
    LET routes == unitNode.staticRoutes
        matching == MatchingRoutes(routes, unit.packet.dstIp)
        longest == {i \in matching :
                       \A j \in matching : routes[j].prefix.prefix <= routes[i].prefix.prefix}
    IN  {i \in longest : \A j \in longest : i <= j}

\* the egress interface of static route i exists on the router and its link
\* has a peer
RouteUsable(i) ==
    /\ unitNode.staticRoutes[i].outInterface \in InterfaceIds(unitNode)
    /\ PeersOf(unitNode, topology.links, unitNode.staticRoutes[i].outInterface) # {}

AddressClauseMatches(clause, ip) ==
    \/ clause.kind \in {"absent", "any"}
    \/ /\ ip # NoIp
       /\ IF clause.kind = "cidr" THEN Contains(clause.cidr, ip) ELSE clause.cidr.addr = ip

\* the clauses of a rule other than the address clauses
OtherClausesMatch(rule, packet) ==
    /\ rule.proto \in {"", "any"} \/ rule.proto = packet.proto
    /\ rule.srcPort = NoPort \/ rule.srcPort = packet.srcPort
    /\ rule.dstPort = NoPort \/ rule.dstPort = packet.dstPort

\* C28: matchesRule accepts a packet iff every configured clause of the rule
\* matches: protocol absent, 'any' or equal; source and destination address
\* absent, 'any', containing the packet's address (CIDR) or equal to it;
\* ports absent or equal. A rule with a concrete source or destination
\* address does not match a packet that carries no such address.
C28_RuleMatchesIffEveryClause ==
    unit.op = "matchesRule" =>
        (unit.out <=> /\ OtherClausesMatch(unit.rule, unit.packet)
                      /\ AddressClauseMatches(unit.rule.srcIp, unit.packet.srcIp)
                      /\ AddressClauseMatches(unit.rule.dstIp, unit.packet.dstIp))

\* the last direct call handed a firewall, through one of its interfaces, a
\* packet that is not addressed to the firewall and that its rules allow
FirewallAllowed ==
    /\ unit.op = "firewall"
    /\ unit.interfaceId \in InterfaceIds(unitNode)
    /\ \A i \in 1..Len(unitNode.interfaces) :
          unit.packet.dstIp = NoIp \/ unitNode.interfaces[i].ip.addr # unit.packet.dstIp
    /\ unit.aclResult.action = "allow"

\* the interfaces of the firewall, by position, other than the ingress
\* interface, whose link has a peer
EligibleEgress ==
    {i \in 1..Len(unitNode.interfaces) :
        /\ unitNode.interfaces[i].id # unit.interfaceId
        /\ PeersOf(unitNode, topology.links, unitNode.interfaces[i].id) # {}}

\* C29: on allow a firewall records acl-allow (after the receive hop) and
\* then emits exactly one event, through the first interface in configured
\* order that is not the ingress interface and whose link has a peer, with
\* the source MAC rewritten to that interface's MAC and one forward hop on
\* that interface; if no such interface exists it emits no event. No call of
\* a firewall emits more than one event or forwards through its ingress
\* interface.
C29_AllowForwardsThroughFirstPeer ==
    /\ FirewallAllowed =>
          /\ Len(unit.out.trace) >= 2
          /\ unit.out.trace[1].action = "receive"
          /\ unit.out.trace[2].action = "acl-allow"
          /\ unit.out.trace[2].interfaceId = unit.interfaceId
          /\ IF EligibleEgress = {}
             THEN unit.out.events = <<>> /\ Len(unit.out.trace) = 2
             ELSE LET egress == unitNode.interfaces[
                                    CHOOSE i \in EligibleEgress : \A k \in EligibleEgress : i <= k]
                  IN  /\ Len(unit.out.events) = 1
                      /\ [nodeId |-> unit.out.events[1].nodeId,
                          interfaceId |-> unit.out.events[1].interfaceId]
                            \in PeersOf(unitNode, topology.links, egress.id)
                      /\ unit.out.events[1].packet = [unit.packet EXCEPT !.srcMac = egress.mac]
                      /\ Len(unit.out.trace) = 3
                      /\ unit.out.trace[3].action = "forward"
                      /\ unit.out.trace[3].interfaceId = egress.id
                      /\ unit.out.trace[3].packet = unit.out.events[1].packet
    /\ unit.op = "firewall" =>
          /\ Len(unit.out.events) <= 1
          /\ unit.out.events # <<>> => FirewallAllowed
          /\ \A h \in HopsWith(unit.out.trace, "forward") :
                unit.out.trace[h].interfaceId # unit.interfaceId

\* C29 witness: an allowed packet enters through 'eth1'; 'dmz', the first
\* interface, has no link, and of the linked interfaces 'eth0' and 'eth2'
\* the packet leaves through 'eth0' towards host A, although the link of
\* 'eth2' comes first in the list of links.
C29_Witness ==
    /\ FirewallAllowed
    /\ unit.interfaceId = "eth1"
    /\ Len(topology.links) = 3 /\ topology.links[1].id = "l3"
    /\ Cardinality(EligibleEgress) = 2
    /\ Len(unit.out.events) = 1
    /\ unit.out.events[1].nodeId = "A"
    /\ unit.out.events[1].packet.srcMac = PortOf(unitNode, "eth0").mac
    /\ unit.out.events[1].packet.srcMac # unit.packet.srcMac

\* a simulate call is in its main loop and its first hop is the hop of
\* sendPacket, which carries the seed packet
Seeded == pc = "loop" /\ trace # <<>>

\* the first interface of the destination node of the call, none if the
\* node has no interface
DestinationInterface ==
    LET dstNode == getNodeById(topology.nodes, packetSpec.dstNodeId)[1]
    IN  IF dstNode.interfaces = <<>> THEN <<>> ELSE <<dstNode.interfaces[1]>>

\* the seed packet's destination MAC is the MAC of the destination node's
\* first interface, broadcast when the node has none
SeedMacFromNode ==
    trace[1].packet.dstMac =
        IF DestinationInterface = <<>> THEN BroadcastMac ELSE DestinationInterface[1].mac

HostReceived == unit.op = "host" /\ unit.interfaceId \in InterfaceIds(unitNode)

\* the packet of the last call is for the interface it arrived on: its
\* destination MAC is that interface's MAC or broadcast, whatever the case of
\* the letters, or its destination IP is that interface's IP
AddressedToInterface ==
    LET iface == PortOf(unitNode, unit.interfaceId)
    IN  \/ unit.packet.dstMac.octets = iface.mac.octets
        \/ unit.packet.dstMac.octets = BroadcastMac.octets
        \/ unit.packet.dstIp # NoIp /\ unit.packet.dstIp = iface.ip.addr

\* C31: a host-like device that receives a packet on one of its interfaces
\* returns delivered=true (one deliver hop) iff the destination MAC equals
\* that interface's MAC case-insensitively, or is broadcast, or the
\* destination IP equals that interface's IP; otherwise it records the drop
\* 'Packet not addressed to this host'. In both cases, and for an unknown
\* interface, it emits no event.
C31_HostDeliversIffAddressed ==
    /\ unit.op = "host" => unit.out.events = <<>>
    /\ HostReceived =>
          /\ unit.out.delivered <=> AddressedToInterface
          /\ Len(unit.out.trace) = 1
          /\ unit.out.trace[1].interfaceId = unit.interfaceId
          /\ unit.out.trace[1].packet = unit.packet
          /\ IF AddressedToInterface
             THEN /\ unit.out.trace[1].action = "deliver"
                  /\ unit.out.trace[1].reason = "Packet delivered to"
             ELSE /\ unit.out.trace[1].action = "drop"
                  /\ unit.out.trace[1].reason = "Packet not addressed to this host"

\* C31 witness: a frame whose destination MAC is written in upper case and
\* whose destination IP is another host's arrives on the interface whose MAC
\* is written in lower case, and is delivered.
C31_Witness ==
    /\ HostReceived
    /\ unit.interfaceId = "eth0"
    /\ unit.packet.dstMac = Mac(2, FALSE)
    /\ PortOf(unitNode, "eth0").mac = Mac(2, TRUE)
    /\ unit.packet.dstIp = IpFar
    /\ unit.out.delivered

\* the packet a device emitted differs from the one it received at most in
\* the fields the class of the device owns
OnlyOwnedFieldsChanged(class, received, emitted) ==
    IF class = "SwitchDevice"
    THEN emitted = [received EXCEPT !.vlan = emitted.vlan]
    ELSE IF class = "RouterDevice"
    THEN emitted = [received EXCEPT !.ttl = emitted.ttl, !.srcMac = emitted.srcMac]
    ELSE IF class = "FirewallDevice"
    THEN emitted = [received EXCEPT !.srcMac = emitted.srcMac]
    ELSE FALSE

\* C32: every event a step of the main loop enqueues carries the packet of
\* the dequeued event changed only in the fields the processing device owns
\* (switch: VLAN tag; router: TTL and source MAC; firewall: source MAC;
\* host and cloud enqueue nothing), and every event waiting in the queue
\* carries the id, destination MAC, addresses, protocol and ports of the seed
\* packet.
C32_ForwardingKeepsForeignFields ==
    /\ [](Seeded =>
            \A i \in 1..Len(queue) :
                LET seed == trace[1].packet
                    copy == queue[i].packet
                IN  copy = [seed EXCEPT !.vlan = copy.vlan, !.ttl = copy.ttl,
                                        !.srcMac = copy.srcMac])
    /\ [][Dequeues
          => \A i \in 1..Len(Enqueued) :
                /\ getNodeById(topology.nodes, Head(queue).nodeId) # <<>>
                /\ OnlyOwnedFieldsChanged(DeviceClass(NodeOf(Head(queue)).type),
                                          Head(queue).packet, Enqueued[i].packet)]_vars

\* C32 witness: the event at the head of the queue was emitted by a switch
\* through a trunk: it carries VLAN tag 10 where the seed packet had none,
\* and the seed packet's id, MACs and TTL.
C32_Witness ==
    /\ Seeded /\ queue # <<>>
    /\ trace[1].packet.vlan = NoVlan
    /\ Head(queue).packet = [trace[1].packet EXCEPT !.vlan = 10]

\* the switches whose MAC table a step changed
ChangedTables == {id \in DOMAIN macTables : macTables'[id] # macTables[id]}

\* C33: while a simulation runs, a step changes at most the MAC table of the
\* switch that processes the dequeued event, and only when MAC learning is
\* enabled on that switch (set or left to its default), the ingress
\* interface is one of the switch and the frame's VLAN is not refused by the
\* ingress trunk; the set of tables stays the same. Steps that process an
\* event at a host, cloud, router or firewall, or at no device, change none.
C33_OnlyOwnTableChanges ==
    [][pc = "loop"
       => /\ DOMAIN macTables' = DOMAIN macTables
          /\ ChangedTables # {}
             => /\ Dequeues
                /\ getNodeById(topology.nodes, Head(queue).nodeId) # <<>>
                /\ LET node == NodeOf(Head(queue))
                   IN  /\ ChangedTables = {node.id}
                       /\ node.type = "switch"
                       /\ node.macLearning # "false"
                       /\ Head(queue).interfaceId \in InterfaceIds(node)
                       /\ ~RefusedOnTrunk(PortOf(node, Head(queue).interfaceId),
                                          Head(queue).packet)]_vars

\* C33 witness: a run over two switches ended with a delivery at a host
\* after the learning switch had learned the source; the table of the
\* switch that does not learn is still empty.
C33_Witness ==
    /\ result.delivered /\ pc = "idle"
    /\ \E a, b \in DOMAIN macTables :
          a # b /\ macTables[a] # EmptyMap /\ macTables[b] = EmptyMap
    /\ HopsWith(result.trace, "learn") # {}
    /\ LastHop(result.trace).action = "deliver"

\* the last direct call was a processPacket call of a device
DeviceCalled == unit.op \in {"switch", "router", "routerProcess", "firewall", "host"}

\* the positions of the hops of the last call that record an emission
EmissionHops ==
    HopsWith(unit.out.trace, "forward") \cup HopsWith(unit.out.trace, "flood")
        \cup HopsWith(unit.out.trace, "route")

\* C34: the hops of one processPacket call hold at most one receive hop, and
\* every forward, flood or route hop, and so every event, comes after it. A
\* switch records at most one learn hop, first, then receive, then at most one
\* flood or forward hop; a router records receive first, only for a packet
\* that passed the TTL check, and then at most one route hop; a firewall
\* records receive first for every packet that enters through one of its
\* interfaces; a host records no receive hop.
C34_ReceiveBeforeEmission ==
    DeviceCalled =>
        LET tr == unit.out.trace
            receives == HopsWith(tr, "receive")
            learns == HopsWith(tr, "learn")
        IN  /\ Cardinality(receives) <= 1
            /\ \A h \in EmissionHops : receives # {} /\ \A r \in receives : r < h
            /\ unit.out.events # <<>> => EmissionHops # {}
            /\ unit.op = "switch" =>
                  /\ learns \subseteq {1}
                  /\ receives \subseteq {Cardinality(learns) + 1}
                  /\ learns # {} => receives # {}
                  /\ EmissionHops \subseteq {Cardinality(learns) + 2}
                  /\ Len(tr) <= 3
            /\ unit.op \in {"router", "routerProcess"} =>
                  /\ receives \subseteq {1}
                  /\ receives # {} => unit.packet.ttl > 1
                  /\ (unit.interfaceId \in InterfaceIds(unitNode) /\ unit.packet.ttl <= 1)
                        => receives = {}
                  /\ EmissionHops \subseteq {2}
                  /\ EmissionHops = HopsWith(tr, "route")
            /\ unit.op = "firewall" =>
                  /\ receives = IF unit.interfaceId \in InterfaceIds(unitNode) THEN {1} ELSE {}
                  /\ EmissionHops \subseteq {3}
            /\ unit.op = "host" => receives = {} /\ EmissionHops = {}

\* C34 witness: a switch learned the source, recorded the receive hop and
\* then flooded, three hops in that order.
C34_Witness ==
    /\ unit.op = "switch"
    /\ Len(unit.out.trace) = 3
    /\ unit.out.trace[1].action = "learn"
    /\ unit.out.trace[2].action = "receive"
    /\ unit.out.trace[3].action = "flood"
    /\ Len(unit.out.events) >= 2

\* the port a handle belongs to: the handle without its direction suffix
PortOfHandle(handleId) ==
    IF \E p \in HandlePorts : handleId \in {p \o "-source", p \o "-target"}
    THEN CHOOSE p \in HandlePorts : handleId \in {p \o "-source", p \o "-target"}
    ELSE handleId

\* the two (node, port) endpoints of an edge
EdgeEndpoints(edge) ==
    {<<edge.source, PortOfHandle(edge.sourceHandle)>>,
     <<edge.target, PortOfHandle(edge.targetHandle)>>}

\* no endpoint belongs to two edges of the list
EndpointsUnshared(edges) ==
    \A i, j \in 1..Len(edges) :
        i # j => EdgeEndpoints(edges[i]) \cap EdgeEndpoints(edges[j]) = {}

\* the step is an addConnection call, made by onConnect or by
\* completeConnection, that the store rejected
ConnectionRejected ==
    /\ OnConnect \/ CompleteConnection
    /\ unit'.op = "addConnection"
    /\ unit'.rejected

\* C35: on a canvas whose edges were all made by addConnection and
\* completeConnection calls, no (node, port) endpoint is used by more than
\* one edge, and a rejected connection leaves the edge list as it was while
\* the pending source and the temporary link are cleared
C35_EndpointsUsedOnce ==
    /\ []EndpointsUnshared(canvas.edges)
    /\ [][ConnectionRejected =>
              /\ canvas'.edges = canvas.edges
              /\ canvas'.pendingSource = NoPending
              /\ canvas'.tempLink = NoTempLink]_vars

\* an edge is on the canvas and the last connection, begun on the port that
\* edge ends on, was rejected
C35_Witness ==
    /\ unitNode = NoNode
    /\ unit.op = "addConnection"
    /\ unit.rejected
    /\ canvas.cableType # NoCable
    /\ canvas.pendingSource = NoPending
    /\ canvas.tempLink = NoTempLink
    /\ \E i \in 1..Len(canvas.edges) :
          /\ canvas.edges[i].target = unit.connection.source
          /\ PortOfHandle(canvas.edges[i].targetHandle)
                = PortOfHandle(unit.connection.sourceHandle)
          /\ canvas.edges[i].source # unit.connection.target

\* the actions of a trace, in order
TraceActions(tr) == [i \in 1..Len(tr) |-> tr[i].action]

\* two results with the same events, the same table and the same actions
SameSwitchOutcome(a, b) ==
    /\ a.events = b.events
    /\ a.macTable = b.macTable
    /\ TraceActions(a.trace) = TraceActions(b.trace)

\* the step is a direct call of the named switch implementation
SwitchCalledAs(op) ==
    /\ unitCalls' = unitCalls + 1
    /\ unit'.op = op

\* C36: on the same switch node, ingress interface, packet, links, time and
\* MAC table, switchProcess and SwitchDevice.processPacket emit the same
\* events, leave the same MAC table and record the same trace actions
C36_SwitchProcessMatchesDevice ==
    [][SwitchCalledAs("switchProcess") =>
              SameSwitchOutcome(unit'.out,
                                SwitchProcessPacket(unitNode, unit'.interfaceId,
                                                    unit'.packet, topology.links,
                                                    unitCalls + 1, unitTable, 1))]_vars

\* switchProcess has learned a second address and forwarded the frame to
\* the port of the first
C36_Witness ==
    /\ unit.op = "switchProcess"
    /\ TraceActions(unit.out.trace) = <<"learn", "receive", "forward">>
    /\ Len(unit.out.events) = 1
    /\ Cardinality(DOMAIN unitTable) = 2
    /\ unit.out.macTable = unitTable

\* the ports on which the switch has resolved an arriving frame to VLAN V:
\* the ports of the table entries it learned in that VLAN
ResolvedOn(V) ==
    {unitTable[k].interfaceId : k \in {j \in DOMAIN unitTable : unitTable[j].vlan = V}}

\* C37: a port on which an arriving frame was resolved to VLAN V transmits
\* VLAN V: when a frame of VLAN V that arrived on another port is flooded,
\* an event goes to the peer of every such port that has one
C37_IngressEgressAgree ==
    Flooded =>
        \A P \in ResolvedOn(ReceivedVlan) :
            (P # unit.interfaceId /\ PeersOf(unitNode, topology.links, P) # {})
                => EventsThrough(P) # {}

RequestUnanswered == hook.toWorker # <<>> \/ hook.toHook # <<>>

\* C39: isRunning is true whenever a request posted by runSimulation has
\* not been answered, also between the responses of two overlapping
\* requests, and once every request is answered the result shown is that of
\* the most recent request
C39_RunningWhileUnanswered ==
    /\ RequestUnanswered => hook.isRunning
    /\ (hook.posted > 0 /\ ~RequestUnanswered)
          => /\ ~hook.isRunning
             /\ hook.result \in {NoSimulation, SimulationOf(hook.posted)}

====
